---- MODULE Spec2Model ----
(***************************************************************************)
(* A model of pr-agent: the review orchestrator (PRReviewer.review_pr),    *)
(* the hosting-API client it publishes through, the model collaborator's   *)
(* response handling, the diff utilities (parse_patch,                     *)
(* map_line_to_position, get_file_extension, is_binary_file) and the       *)
(* webhook (verify_signature, github_webhook, process_pull_request).       *)
(*                                                                         *)
(* Python strings that the code takes apart are sequences of one-character *)
(* strings, so that split, startswith, replace, lower, re.match and int()  *)
(* are computed character by character.                                    *)
(*                                                                         *)
(* Spec is a review run, SpecDiff a call of a diff utility or of the       *)
(* reviewer's position fallback, SpecSig a call of verify_signature,       *)
(* SpecHook a webhook request with its background task and the review run  *)
(* it starts, SpecLoop two review runs that interleave in one event loop.  *)
(***************************************************************************)
EXTENDS Integers, Sequences, FiniteSets, TLC

VARIABLES
    pc,              \* position of the review run
    envMaxFiles,     \* os.getenv("MAX_PR_FILES"): PyNone when unset, else digits
    argMaxFiles,     \* the max_files argument of PRReviewer.__init__
    max_files,       \* self.max_files
    post_comments,   \* the post_comments argument of review_pr
    apiFiles,        \* what pr.get_files() yields for this pull request
    pr_files,        \* the local pr_files of review_pr
    idx,             \* how many entries of pr_files the for loop has consumed
    file_reviews,    \* the local file_reviews
    review_comments, \* the local review_comments
    summary,         \* the local summary
    apiReads,        \* log of the reads made on self.github_client, with their outcome
    modelCalls,      \* log of the calls made on self.model, with the model's answer
    publishCalls,    \* log of the calls made on add_pr_review / add_pr_comment
    publishReturn,   \* what _post_review_to_github returned
    result,          \* what review_pr returned
    failedAt,        \* the call whose exception ended the run
    dPatch,          \* diff utilities: the patch argument
    dLine,           \* diff utilities: the line_number argument
    dIsNew,          \* diff utilities: the is_new_file argument
    dLineRef,        \* _get_position_from_line: the line_ref argument
    dHunks,          \* diff utilities: what parse_patch returned
    dPosition,       \* diff utilities: what map_line_to_position returned
    dpc,             \* diff utilities: position of the call
    dFilename,       \* diff utilities: the filename argument
    dExtension,      \* diff utilities: what get_file_extension returned
    dBinary,         \* diff utilities: what is_binary_file returned
    sPayload,        \* verify_signature: the payload argument
    sSignature,      \* verify_signature: the signature argument
    sSecret,         \* verify_signature: the secret argument
    sResult,         \* verify_signature: what the call returned or raised
    spc,             \* verify_signature: position of the call
    hSecret,         \* webhook: os.getenv("GITHUB_WEBHOOK_SECRET")
    hRequest,        \* webhook: the request (headers and body)
    hResponse,       \* webhook: the HTTP response sent
    hTasks,          \* webhook: the tasks added to background_tasks
    hLog,            \* webhook: what the background task logged
    hpc,             \* webhook: position of the request and of its background task
    suspended,       \* event loop: the frame of the review run suspended at an await
    overlapped       \* event loop: a switch happened while both runs were mid-run

reviewVars == <<pc, envMaxFiles, argMaxFiles, max_files, post_comments, apiFiles,
                pr_files, idx, file_reviews, review_comments, summary, apiReads,
                modelCalls, publishCalls, publishReturn, result, failedAt>>
diffVars == <<dPatch, dLine, dIsNew, dLineRef, dHunks, dPosition, dpc, dFilename, dExtension, dBinary>>
sigVars == <<sPayload, sSignature, sSecret, sResult, spc>>
hookVars == <<hSecret, hRequest, hResponse, hTasks, hLog, hpc>>
loopVars == <<suspended, overlapped>>
vars == <<reviewVars, diffVars, sigVars, hookVars, loopVars>>

-----------------------------------------------------------------------------
(* Bounds *)

\* longest changed-file list the hosting API returns
MaxFiles == 3
\* largest max_files argument given to the reviewer
MaxFilesArg == 2
\* largest line number asked of map_line_to_position
MaxLine == 6

-----------------------------------------------------------------------------
(* Python values *)

\* Python's None where a string is expected (no string has a 6-character element)
PyNone == <<"<None>">>

\* str.startswith
StartsWith(s, p) == Len(s) >= Len(p) /\ SubSeq(s, 1, Len(p)) = p

\* sep in s, for a one-character sep
Contains(s, c) == \E i \in 1..Len(s) : s[i] = c

RECURSIVE SplitFrom(_, _, _, _)
SplitFrom(s, c, i, cur) ==
    IF i > Len(s) THEN <<cur>>
    ELSE IF s[i] = c THEN <<cur>> \o SplitFrom(s, c, i + 1, <<>>)
    ELSE SplitFrom(s, c, i + 1, Append(cur, s[i]))

\* str.split(sep) for a one-character sep: "" splits to [""]
Split(s, c) == SplitFrom(s, c, 1, <<>>)

RECURSIVE Join(_)
\* "\n".join(lines)
Join(lines) ==
    IF lines = <<>> THEN <<>>
    ELSE IF Len(lines) = 1 THEN lines[1]
    ELSE lines[1] \o <<"\n">> \o Join(Tail(lines))

Digits == {"0", "1", "2", "3", "4", "5", "6", "7", "8", "9"}

DigitVal(c) ==
    CASE c = "0" -> 0 [] c = "1" -> 1 [] c = "2" -> 2 [] c = "3" -> 3 [] c = "4" -> 4
      [] c = "5" -> 5 [] c = "6" -> 6 [] c = "7" -> 7 [] c = "8" -> 8 [] c = "9" -> 9

RECURSIVE DecimalValue(_)
DecimalValue(s) ==
    IF s = <<>> THEN 0
    ELSE 10 * DecimalValue(SubSeq(s, 1, Len(s) - 1)) + DigitVal(s[Len(s)])

\* int(s) for a string of plain characters: a value, or ValueError
IntOfStr(s) ==
    IF s # <<>> /\ \A i \in 1..Len(s) : s[i] \in Digits
    THEN [ok |-> TRUE, val |-> DecimalValue(s)]
    ELSE [ok |-> FALSE, val |-> 0]

-----------------------------------------------------------------------------
(* src/utils/diff_utils.py *)

RECURSIVE DigitsEnd(_, _)
\* index of the last character of the digit run starting at s[i] (i - 1 if none)
DigitsEnd(s, i) ==
    IF i <= Len(s) /\ s[i] \in Digits THEN DigitsEnd(s, i + 1) ELSE i - 1

\* the pattern r"@@ -(\d+),(\d+) \+(\d+),(\d+) @@": literal characters and groups
DigitsGroup == "(\\d+)"
HeaderPattern ==
    <<"@", "@", " ", "-", DigitsGroup, ",", DigitsGroup, " ", "+", DigitsGroup, ",",
      DigitsGroup, " ", "@", "@">>

NoMatch == [matched |-> FALSE, groups |-> <<>>]

RECURSIVE MatchFrom(_, _, _, _, _)
\* match pat[k..] at line[i..]; a group takes the whole digit run (what follows a
\* group in the pattern is never a digit, so no shorter run can match)
MatchFrom(line, i, pat, k, groups) ==
    IF k > Len(pat) THEN [matched |-> TRUE, groups |-> groups]
    ELSE IF pat[k] = DigitsGroup
    THEN IF DigitsEnd(line, i) < i THEN NoMatch
         ELSE MatchFrom(line, DigitsEnd(line, i) + 1, pat, k + 1,
                        Append(groups, SubSeq(line, i, DigitsEnd(line, i))))
    ELSE IF i <= Len(line) /\ line[i] = pat[k]
    THEN MatchFrom(line, i + 1, pat, k + 1, groups)
    ELSE NoMatch

\* re.match(pattern, line): anchored at the start of the line, not at its end
HunkHeaderMatch(line) == MatchFrom(line, 1, HeaderPattern, 1, <<>>)

\* the dict built for a recognized header
NewHunk(line, groups) ==
    [header |-> line,
     old_start |-> DecimalValue(groups[1]), old_count |-> DecimalValue(groups[2]),
     new_start |-> DecimalValue(groups[3]), new_count |-> DecimalValue(groups[4]),
     lines |-> <<>>]

\* current_hunk = None
NoHunk == [header |-> PyNone]

\* One iteration of parse_patch's loop. st.hunks is the list, st.cur the dict
\* current_hunk refers to, st.alias the indices of st.hunks that hold that same dict
\* (a dict appended to hunks and still being appended to is one object).
StepFrom(st, line) ==
    IF StartsWith(line, <<"@", "@">>)
    THEN LET appended == IF st.cur # NoHunk
                         THEN [st EXCEPT !.hunks = Append(st.hunks, st.cur),
                                         !.alias = st.alias \cup {Len(st.hunks) + 1}]
                         ELSE st
             m == HunkHeaderMatch(line)
         IN  IF m.matched
             THEN [appended EXCEPT !.cur = NewHunk(line, m.groups), !.alias = {}]
             ELSE appended
    ELSE IF st.cur # NoHunk
    THEN LET cur2 == [st.cur EXCEPT !.lines = Append(st.cur.lines, line)]
         IN  [hunks |-> [i \in 1..Len(st.hunks) |->
                            IF i \in st.alias THEN cur2 ELSE st.hunks[i]],
              cur |-> cur2, alias |-> st.alias]
    ELSE st

\* the same, with the state before it computed once
ParseStep(state, line) == CHOOSE next \in {StepFrom(st, line) : st \in {state}} : TRUE

RECURSIVE ParseLoop(_, _, _)
ParseLoop(st, lines, i) ==
    IF i > Len(lines) THEN st ELSE ParseLoop(ParseStep(st, lines[i]), lines, i + 1)

\* parse_patch without the "Add the last hunk" that follows its loop
parse_patch_LastHunkDropped(patch) ==
    IF patch = PyNone \/ patch = <<>> THEN <<>>
    ELSE ParseLoop([hunks |-> <<>>, cur |-> NoHunk, alias |-> {}],
                   Split(patch, "\n"), 1).hunks

\* parse_patch(patch)
parse_patch(patch) ==
    IF patch = PyNone \/ patch = <<>> THEN <<>>
    ELSE LET st == ParseLoop([hunks |-> <<>>, cur |-> NoHunk, alias |-> {}],
                             Split(patch, "\n"), 1)
         IN  IF st.cur # NoHunk THEN Append(st.hunks, st.cur) ELSE st.hunks

\* map_line_to_position's "not found" (Python None)
NotFound == -1

RECURSIVE MapLines_PositionNotAdvanced(_, _, _, _, _, _)
\* the inner loop without its "position += 1"
MapLines_PositionNotAdvanced(lines, i, position, current_line, line_number, is_new_file) ==
    IF i > Len(lines) THEN [found |-> FALSE, position |-> position]
    ELSE IF is_new_file /\ StartsWith(lines[i], <<"-">>)
    THEN MapLines_PositionNotAdvanced(lines, i + 1, position, current_line, line_number,
                                      is_new_file)
    ELSE IF ~is_new_file /\ StartsWith(lines[i], <<"+">>)
    THEN MapLines_PositionNotAdvanced(lines, i + 1, position, current_line, line_number,
                                      is_new_file)
    ELSE IF current_line = line_number
    THEN [found |-> TRUE, position |-> position]
    ELSE MapLines_PositionNotAdvanced(lines, i + 1, position, current_line + 1,
                                      line_number, is_new_file)

RECURSIVE MapLines_MarkersKept(_, _, _, _, _, _)
\* the inner loop with lines of the --- / +++ form taken for lines of the target
MapLines_MarkersKept(lines, i, position, current_line, line_number, is_new_file) ==
    IF i > Len(lines) THEN [found |-> FALSE, position |-> position]
    ELSE IF /\ StartsWith(lines[i], IF is_new_file THEN <<"-">> ELSE <<"+">>)
            /\ ~StartsWith(lines[i], IF is_new_file THEN <<"-", "-", "-">>
                                     ELSE <<"+", "+", "+">>)
    THEN MapLines_MarkersKept(lines, i + 1, position + 1, current_line, line_number,
                              is_new_file)
    ELSE IF current_line = line_number
    THEN [found |-> TRUE, position |-> position + 1]
    ELSE MapLines_MarkersKept(lines, i + 1, position + 1, current_line + 1,
                              line_number, is_new_file)

RECURSIVE MapLines(_, _, _, _, _, _)
\* the inner loop over hunk["lines"]: the position returned, or the counters after it
MapLines(lines, i, position, current_line, line_number, is_new_file) ==
    IF i > Len(lines) THEN [found |-> FALSE, position |-> position]
    ELSE LET line == lines[i]
             pos == position + 1
         IN  IF is_new_file /\ StartsWith(line, <<"-">>)
             THEN MapLines(lines, i + 1, pos, current_line, line_number, is_new_file)
             ELSE IF ~is_new_file /\ StartsWith(line, <<"+">>)
             THEN MapLines(lines, i + 1, pos, current_line, line_number, is_new_file)
             ELSE IF current_line = line_number
             THEN [found |-> TRUE, position |-> pos]
             ELSE MapLines(lines, i + 1, pos,
                           IF ~StartsWith(line, IF is_new_file THEN <<"-">> ELSE <<"+">>)
                           THEN current_line + 1 ELSE current_line,
                           line_number, is_new_file)

RECURSIVE MapHunks(_, _, _, _, _)
\* the outer loop over hunks
MapHunks(hunks, h, position, line_number, is_new_file) ==
    IF h > Len(hunks) THEN NotFound
    ELSE LET start_line == IF is_new_file THEN hunks[h].new_start ELSE hunks[h].old_start
             r == MapLines(hunks[h].lines, 1, position + 1, start_line,
                           line_number, is_new_file)
         IN  IF r.found THEN r.position
             ELSE MapHunks(hunks, h + 1, r.position, line_number, is_new_file)

\* the mapper with the hunk header left uncounted
map_line_to_position_HeaderUncounted(patch, line_number, is_new_file) ==
    MapHunks(parse_patch(patch), 1, -1, line_number, is_new_file)

\* map_line_to_position(patch, line_number, is_new_file)
map_line_to_position(patch, line_number, is_new_file) ==
    MapHunks(parse_patch(patch), 1, 0, line_number, is_new_file)

UpperCase ==
    <<"A", "B", "C", "D", "E", "F", "G", "H", "I", "J", "K", "L", "M", "N", "O", "P", "Q",
      "R", "S", "T", "U", "V", "W", "X", "Y", "Z">>
LowerCase ==
    <<"a", "b", "c", "d", "e", "f", "g", "h", "i", "j", "k", "l", "m", "n", "o", "p", "q",
      "r", "s", "t", "u", "v", "w", "x", "y", "z">>

\* str.lower
Lower(s) ==
    [i \in 1..Len(s) |->
        IF \E k \in 1..26 : UpperCase[k] = s[i]
        THEN LowerCase[CHOOSE k \in 1..26 : UpperCase[k] = s[i]]
        ELSE s[i]]

\* the extension taken without .lower()
get_file_extension_CaseKept(filename) ==
    IF Len(Split(filename, ".")) > 1
    THEN Split(filename, ".")[Len(Split(filename, "."))]
    ELSE <<>>

\* get_file_extension(filename)
get_file_extension(filename) ==
    IF Len(Split(filename, ".")) > 1
    THEN Lower(Split(filename, ".")[Len(Split(filename, "."))])
    ELSE <<>>

binary_extensions ==
    {<<"p", "n", "g">>, <<"j", "p", "g">>, <<"j", "p", "e", "g">>, <<"g", "i", "f">>,
     <<"b", "m", "p">>, <<"i", "c", "o">>, <<"s", "v", "g">>, <<"w", "e", "b", "p">>,
     <<"m", "p", "3">>, <<"w", "a", "v">>, <<"o", "g", "g">>, <<"f", "l", "a", "c">>,
     <<"a", "a", "c">>, <<"m", "p", "4">>, <<"a", "v", "i">>, <<"m", "k", "v">>,
     <<"m", "o", "v">>, <<"w", "e", "b", "m">>, <<"p", "d", "f">>, <<"d", "o", "c">>,
     <<"d", "o", "c", "x">>, <<"x", "l", "s">>, <<"x", "l", "s", "x">>,
     <<"p", "p", "t">>, <<"p", "p", "t", "x">>, <<"z", "i", "p">>, <<"t", "a", "r">>,
     <<"g", "z">>, <<"r", "a", "r">>, <<"7", "z">>, <<"e", "x", "e">>, <<"d", "l", "l">>,
     <<"s", "o">>, <<"d", "y", "l", "i", "b">>, <<"b", "i", "n">>, <<"d", "a", "t">>}

\* is_binary_file(filename)
is_binary_file(filename) == get_file_extension(filename) \in binary_extensions

-----------------------------------------------------------------------------
(* pr_agent/core/reviewer.py: PRReviewer._get_position_from_line *)

\* the value of a "line" key: an int, a string or null, kept in one record shape
IntLine(n) == [kind |-> "int", n |-> n, s |-> <<>>]
StrLine(s) == [kind |-> "str", n |-> 0, s |-> s]
NullLine == [kind |-> "null", n |-> 0, s |-> <<>>]
\* the float json.loads gives for 1e999 or Infinity
InfLine == [kind |-> "inf", n |-> 0, s |-> <<>>]

\* int(float("inf")) raises OverflowError, which the except clause does not name
OverflowError == -2

\* the try block's int(...): a line number, or ValueError / TypeError
ParseLineRef(line_ref) ==
    IF line_ref.kind = "str" /\ Contains(line_ref.s, "-")
    THEN IntOfStr(Split(line_ref.s, "-")[1])
    ELSE IF line_ref.kind = "str" THEN IntOfStr(line_ref.s)
    ELSE IF line_ref.kind = "int" THEN [ok |-> TRUE, val |-> line_ref.n]
    ELSE [ok |-> FALSE, val |-> 0]

RECURSIVE PositionScan(_, _, _, _)
\* the for loop over enumerate(lines); i is 1-based here, so i + 1 in the code is i
PositionScan(lines, i, current_line, line_num) ==
    IF i > Len(lines) THEN Len(lines)
    ELSE IF StartsWith(lines[i], <<"+">>) /\ ~StartsWith(lines[i], <<"+", "+", "+">>)
    THEN IF current_line + 1 >= line_num THEN i
         ELSE PositionScan(lines, i + 1, current_line + 1, line_num)
    ELSE PositionScan(lines, i + 1, current_line, line_num)

_get_position_from_line(patch, line_ref) ==
    IF line_ref.kind = "inf" THEN OverflowError
    ELSE LET parsed == ParseLineRef(line_ref)
         IN  IF parsed.ok THEN PositionScan(Split(patch, "\n"), 1, 0, parsed.val) ELSE 1

-----------------------------------------------------------------------------
(* The pull request under review and what the collaborators may answer *)

PatchExample ==
    Join(<< <<"@", "@", " ", "-", "1", ",", "3", " ", "+", "1", ",", "4", " ", "@", "@">>,
            <<" ", "l", "i", "n", "e", "1">>,
            <<"+", "l", "i", "n", "e", "2">>,
            <<" ", "l", "i", "n", "e", "3">>,
            <<" ", "l", "i", "n", "e", "4">> >>)

PatchTwoAdded ==
    Join(<< <<"@", "@", " ", "-", "1", ",", "2", " ", "+", "1", ",", "3", " ", "@", "@">>,
            <<"-", "x">>, <<"+", "y">>, <<"+", "z">>, <<" ", "c">> >>)

\* the ChangedFile records get_pr_files builds (the fields review_pr reads)
FileA == [filename |-> <<"a", ".", "p", "y">>, status |-> "modified", patch |-> PatchExample]
FileB == [filename |-> <<"b", ".", "p", "y">>, status |-> "removed", patch |-> PatchTwoAdded]
FileC == [filename |-> <<"c", ".", "s", "v", "g">>, status |-> "added", patch |-> PyNone]
FileD == [filename |-> <<"d", ".", "p", "y">>, status |-> "added", patch |-> PatchTwoAdded]
FileE == [filename |-> <<"e", ".", "p", "y">>, status |-> "modified", patch |-> <<>>]
\* a file of a binary extension for which the API gives patch text
FileF == [filename |-> <<"f", ".", "s", "v", "g">>, status |-> "added", patch |-> PatchTwoAdded]
ChangedFiles == {FileA, FileB, FileC, FileD, FileE, FileF}

\* the changed-file lists: distinct files, at most MaxFiles of them
FileLists ==
    UNION {{fs \in [1..n -> ChangedFiles] : \A i, j \in 1..n : i # j => fs[i] # fs[j]}
           : n \in 0..MaxFiles}

\* issues as the model may return them
IssueNoLine == [type |-> "style", severity |-> "low", description |-> "d0", suggestion |-> "s0"]
IssueNull == [type |-> "style", severity |-> "low", description |-> "d1", suggestion |-> "s1",
              line |-> NullLine]
IssueZero == [type |-> "other", severity |-> "low", description |-> "d2", suggestion |-> "s2",
              line |-> IntLine(0)]
IssueOne == [type |-> "bug", severity |-> "high", description |-> "d3", suggestion |-> "s3",
             line |-> IntLine(1)]
IssueTwo == [type |-> "bug", severity |-> "medium", description |-> "d4", suggestion |-> "s4",
             line |-> IntLine(2)]
IssueRange == [type |-> "security", severity |-> "high", description |-> "d5",
               suggestion |-> "s5", line |-> StrLine(<<"2", "-", "3">>)]
IssueText == [type |-> "performance", severity |-> "low", description |-> "d6",
              suggestion |-> "s6", line |-> StrLine(<<"a", "b", "c">>)]
IssueNoType == [severity |-> "low", description |-> "d7", suggestion |-> "s7",
                line |-> IntLine(1)]

\* what json.loads can yield: an object with issues and summary, or something else
JsonDict(issues, text) == [t |-> "dict", issues |-> issues, summary |-> text]
JsonList == [t |-> "list"]

\* what chain.ainvoke can do in analyze_diff: raise, or return text that is or is not JSON
ResponseError == [kind |-> "exception"]
ResponseText == [kind |-> "text"]
ResponseJson(v) == [kind |-> "json", value |-> v]
Responses ==
    {ResponseError, ResponseText, ResponseJson(JsonList),
     ResponseJson(JsonDict(<<IssueTwo>>, "r1")),
     ResponseJson(JsonDict(<<IssueNoLine, IssueOne, IssueRange>>, "r2")),
     ResponseJson(JsonDict(<<IssueNull, IssueZero, IssueText>>, "r3")),
     ResponseJson(JsonDict(<<IssueOne, IssueNoType>>, "r4"))}

\* what a hosting-API read can do: succeed, or fail in get_repo or in get_pull
RetrievalOutcomes == {"ok", "repo_not_found", "pr_not_found"}

\* what a publish can do: succeed, fail in create_* with GithubException, or fail
\* in the get_pull_request that precedes it
PublishOutcomes == {"ok", "GithubException", "repo_not_found", "pr_not_found"}

\* what chain.ainvoke can do in summarize_review
SummaryOutcomes == {"summary text", "exception"}

PrInfo == [number |-> "123", title |-> "title", url |-> "url"]
NoResult == [returned |-> FALSE]
NoReturn == "none"

-----------------------------------------------------------------------------
(* pr_agent/core/reviewer.py: PRReviewer *)

\* the max_files argument: None, or an int
NoArg == [given |-> FALSE, val |-> 0]
ArgOf(n) == [given |-> TRUE, val |-> n]

\* self.max_files = max_files or int(os.getenv("MAX_PR_FILES", "10"))
InitMaxFiles(arg, env) ==
    IF arg.given /\ arg.val # 0 THEN arg.val
    ELSE IntOfStr(IF env = PyNone THEN <<"1", "0">> ELSE env).val

\* self.comment_prefix, REVIEW_COMMENT_PREFIX being unset
comment_prefix == "[PR-Agent]"

\* pr_files[:self.max_files] when the list is longer than self.max_files
LimitFiles(files, limit) ==
    IF Len(files) > limit THEN SubSeq(files, 1, limit) ELSE files

\* the skip test without its status check
Skipped_IgnoresStatus(file) == file.patch = PyNone \/ file.patch = <<>>

\* the loop's skip test: file["status"] == "removed" or not file.get("patch")
Skipped(file) == file.status = "removed" \/ file.patch = PyNone \/ file.patch = <<>>

\* what analyze_diff returns for text the model returned: json.loads(result), or
\* the fallback of the except json.JSONDecodeError branch
ParseFailure == JsonDict(<<>>, "Error: Failed to parse model response")
AnalyzeResult(resp) == IF resp.kind = "json" THEN resp.value ELSE ParseFailure

\* the line test reduced to the presence of the key
CarriesLine_KeyOnly(issue) == "line" \in DOMAIN issue

\* "line" in issue and issue["line"]
CarriesLine(issue) ==
    /\ "line" \in DOMAIN issue
    /\ \/ issue.line.kind = "int" /\ issue.line.n # 0
       \/ issue.line.kind = "str" /\ issue.line.s # <<>>
       \/ issue.line.kind = "inf"

\* str.upper on the issue types
Upper(t) ==
    CASE t = "bug" -> "BUG" [] t = "security" -> "SECURITY"
      [] t = "performance" -> "PERFORMANCE" [] t = "style" -> "STYLE"
      [] t = "other" -> "OTHER"

\* the keys the comment body's f-string reads
BodyKeys == {"type", "severity", "description", "suggestion"}

\* the comment dict built for one issue
CommentFor(file, issue) ==
    [path |-> file.filename,
     position |-> _get_position_from_line(file.patch, issue.line),
     body |-> <<comment_prefix, Upper(issue.type), issue.severity,
                issue.description, issue.suggestion>>]

RECURSIVE CommentsFor(_, _, _)
\* the loop over review_result["issues"]: the comments appended, or the
\* OverflowError of a line that is infinite, or the KeyError of an issue that lacks a
\* key of the body
CommentsFor(file, issues, i) ==
    IF i > Len(issues) THEN [ok |-> TRUE, comments |-> <<>>]
    ELSE IF ~CarriesLine(issues[i]) THEN CommentsFor(file, issues, i + 1)
    ELSE IF _get_position_from_line(file.patch, issues[i].line) = OverflowError
    THEN [ok |-> FALSE, comments |-> <<>>]
    ELSE IF ~(BodyKeys \subseteq DOMAIN issues[i]) THEN [ok |-> FALSE, comments |-> <<>>]
    ELSE LET rest == CommentsFor(file, issues, i + 1)
         IN  [ok |-> rest.ok,
              comments |-> IF rest.ok THEN <<CommentFor(file, issues[i])>> \o rest.comments
                           ELSE <<>>]

\* comment preparation that does not look at post_comments
PrepareComments_Unconditional(file, review_result, post) ==
    IF review_result.t # "dict" THEN [ok |-> FALSE, comments |-> <<>>]
    ELSE CommentsFor(file, review_result.issues, 1)

\* "Prepare comments for GitHub": review_result.get("issues") raises AttributeError
\* on a value that is not a dict
PrepareComments(file, review_result, post) ==
    IF ~post THEN [ok |-> TRUE, comments |-> <<>>]
    ELSE IF review_result.t # "dict" THEN [ok |-> FALSE, comments |-> <<>>]
    ELSE CommentsFor(file, review_result.issues, 1)

\* the text both publish calls carry: f"{prefix} Review Summary\n\n{summary}"
ReviewBody(text) == <<comment_prefix, " Review Summary\n\n", text>>

\* the publish that never posts a review
PublishCall_AlwaysComment(comments, text) ==
    [op |-> "add_pr_comment", comment |-> ReviewBody(text)]

\* _post_review_to_github: the client call it makes
PublishCall(comments, text) ==
    IF comments # <<>>
    THEN [op |-> "add_pr_review", comments |-> comments, body |-> ReviewBody(text)]
    ELSE [op |-> "add_pr_comment", comment |-> ReviewBody(text)]

\* the dict review_pr returns
ReviewResult(reviews, text) ==
    [returned |-> TRUE, pr |-> PrInfo, file_reviews |-> reviews, summary |-> text]

\* a client that logs the GithubException and carries on
RetrievalRaises_Swallowed(outcome) == FALSE

\* analyze_diff without its except clause
AnalyzeRaises_NoExcept(resp) == resp.kind # "json"

\* get_repository / get_pull_request turn a GithubException into a ValueError
RetrievalRaises(outcome) == outcome # "ok"

\* analyze_diff catches json.JSONDecodeError alone: what ainvoke raises leaves it
AnalyzeRaises(resp) == resp.kind = "exception"

\* an exception leaves review_pr: nothing is returned
Raise(where) ==
    /\ pc' = "failed"
    /\ failedAt' = where

\* PRReviewer.__init__
Construct ==
    /\ pc = "new"
    /\ max_files' = InitMaxFiles(argMaxFiles, envMaxFiles)
    /\ pc' = "get_pull_request"
    /\ UNCHANGED <<envMaxFiles, argMaxFiles, post_comments, apiFiles, pr_files, idx,
                   file_reviews, review_comments, summary, apiReads, modelCalls,
                   publishCalls, publishReturn, result, failedAt, diffVars, sigVars, hookVars, loopVars>>

\* pr = self.github_client.get_pull_request(repo_name, pr_number)
GetPullRequest(outcome) ==
    /\ pc = "get_pull_request"
    /\ apiReads' = Append(apiReads, [op |-> "get_pull_request", outcome |-> outcome])
    /\ IF RetrievalRaises(outcome) THEN Raise("get_pull_request")
       ELSE pc' = "get_pr_files" /\ UNCHANGED failedAt
    /\ UNCHANGED <<envMaxFiles, argMaxFiles, max_files, post_comments, apiFiles,
                   pr_files, idx, file_reviews, review_comments, summary, modelCalls,
                   publishCalls, publishReturn, result, diffVars, sigVars, hookVars, loopVars>>

\* pr_files = self.github_client.get_pr_files(...), then the limit
GetPrFiles(outcome) ==
    /\ pc = "get_pr_files"
    /\ apiReads' = Append(apiReads, [op |-> "get_pr_files", outcome |-> outcome])
    /\ IF RetrievalRaises(outcome)
       THEN Raise("get_pr_files") /\ UNCHANGED pr_files
       ELSE /\ pr_files' = LimitFiles(apiFiles, max_files)
            /\ pc' = "files"
            /\ UNCHANGED failedAt
    /\ UNCHANGED <<envMaxFiles, argMaxFiles, max_files, post_comments, apiFiles, idx,
                   file_reviews, review_comments, summary, modelCalls, publishCalls,
                   publishReturn, result, diffVars, sigVars, hookVars, loopVars>>

\* one iteration of "for file in pr_files" that ends in continue
SkipFile ==
    /\ pc = "files"
    /\ idx < Len(pr_files)
    /\ Skipped(pr_files[idx + 1])
    /\ idx' = idx + 1
    /\ UNCHANGED <<pc, envMaxFiles, argMaxFiles, max_files, post_comments, apiFiles,
                   pr_files, file_reviews, review_comments, summary, apiReads,
                   modelCalls, publishCalls, publishReturn, result, failedAt, diffVars, sigVars, hookVars, loopVars>>

\* one iteration that calls self.model.analyze_diff, records the review and
\* prepares the comments
AnalyzeFile(resp) ==
    /\ pc = "files"
    /\ idx < Len(pr_files)
    /\ ~Skipped(pr_files[idx + 1])
    /\ LET file == pr_files[idx + 1]
           review_result == AnalyzeResult(resp)
           prepared == PrepareComments(file, review_result, post_comments)
       IN  /\ modelCalls' = Append(modelCalls,
                  [op |-> "analyze_diff", filename |-> file.filename, diff |-> file.patch,
                   answer |-> resp.kind, returned |-> review_result])
           /\ IF AnalyzeRaises(resp)
              THEN Raise("analyze_diff") /\ UNCHANGED <<idx, file_reviews, review_comments>>
              ELSE /\ file_reviews' = Append(file_reviews,
                          [filename |-> file.filename, review |-> review_result])
                   /\ IF prepared.ok
                      THEN /\ review_comments' = review_comments \o prepared.comments
                           /\ idx' = idx + 1
                           /\ UNCHANGED <<pc, failedAt>>
                      ELSE Raise("prepare_comments") /\ UNCHANGED <<idx, review_comments>>
    /\ UNCHANGED <<envMaxFiles, argMaxFiles, max_files, post_comments, apiFiles,
                   pr_files, summary, apiReads, publishCalls, publishReturn, result,
                   diffVars, sigVars, hookVars, loopVars>>

\* a summarize_review call placed inside the loop
LoopExhausted_Early(i, files) == TRUE

\* "for file in pr_files" has consumed the list: the statements after the loop run
LoopExhausted(i, files) == i = Len(files)

\* summary = await self.model.summarize_review(...); without post_comments the
\* return statement follows
Summarize(outcome) ==
    /\ pc = "files"
    /\ LoopExhausted(idx, pr_files)
    /\ modelCalls' = Append(modelCalls,
           [op |-> "summarize_review", file_reviews |-> file_reviews,
            answer |-> outcome])
    /\ IF outcome = "exception"
       THEN Raise("summarize_review") /\ UNCHANGED <<summary, result>>
       ELSE /\ summary' = outcome
            /\ UNCHANGED failedAt
            /\ IF post_comments
               THEN pc' = "publish" /\ UNCHANGED result
               ELSE pc' = "done" /\ result' = ReviewResult(file_reviews, outcome)
    /\ UNCHANGED <<envMaxFiles, argMaxFiles, max_files, post_comments, apiFiles,
                   pr_files, idx, file_reviews, review_comments, apiReads, publishCalls,
                   publishReturn, diffVars, sigVars, hookVars, loopVars>>

\* self._post_review_to_github(...), then the return statement.  add_pr_review and
\* add_pr_comment call get_pull_request before their try block
PostReview(outcome) ==
    /\ pc = "publish"
    /\ publishCalls' = Append(publishCalls, PublishCall(review_comments, summary))
    /\ IF outcome \in {"repo_not_found", "pr_not_found"} /\ RetrievalRaises(outcome)
       THEN Raise("publish") /\ UNCHANGED <<publishReturn, result>>
       ELSE /\ publishReturn' = IF outcome = "ok" THEN "True" ELSE "False"
            /\ result' = ReviewResult(file_reviews, summary)
            /\ pc' = "done"
            /\ UNCHANGED failedAt
    /\ UNCHANGED <<envMaxFiles, argMaxFiles, max_files, post_comments, apiFiles,
                   pr_files, idx, file_reviews, review_comments, summary, apiReads,
                   modelCalls, diffVars, sigVars, hookVars, loopVars>>

-----------------------------------------------------------------------------
(* pr_agent/github/webhook.py: verify_signature *)

\* request bodies, as the bytes the sender signs
\* the payload of test_verify_signature_valid
PayloadTest == "{\"test\": \"data\"}"
\* the body of a ping event
PayloadPing == "{\"zen\": \"Test ping\"}"
\* a pull_request event, one per action
PayloadOpened ==
    "{\"action\": \"opened\", \"repository\": {\"full_name\": \"owner/repo\"}, "
    \o "\"pull_request\": {\"number\": 123}}"
PayloadSynchronize ==
    "{\"action\": \"synchronize\", \"repository\": {\"full_name\": \"owner/repo\"}, "
    \o "\"pull_request\": {\"number\": 123}}"
PayloadReopened ==
    "{\"action\": \"reopened\", \"repository\": {\"full_name\": \"owner/repo\"}, "
    \o "\"pull_request\": {\"number\": 123}}"
PayloadClosed ==
    "{\"action\": \"closed\", \"repository\": {\"full_name\": \"owner/repo\"}, "
    \o "\"pull_request\": {\"number\": 123}}"
PayloadEmptyAction ==
    "{\"action\": \"\", \"repository\": {\"full_name\": \"owner/repo\"}, "
    \o "\"pull_request\": {\"number\": 123}}"
\* a pull_request event lacking a key
PayloadNoAction ==
    "{\"repository\": {\"full_name\": \"owner/repo\"}, "
    \o "\"pull_request\": {\"number\": 123}}"
PayloadNoRepository == "{\"action\": \"opened\", \"pull_request\": {\"number\": 123}}"
PayloadNoPullRequest ==
    "{\"action\": \"opened\", \"repositor"
    \o "y\": {\"full_name\": \"owner/repo\"}}"
\* a repository that is null, a body that is a JSON array, a body that is not JSON
PayloadNullRepository ==
    "{\"action\": \"opened\", \"repository\": null, "
    \o "\"pull_request\": {\"number\": 123}}"
PayloadArray == "[]"
PayloadText == "not json"
Payloads ==
    {PayloadTest, PayloadPing, PayloadOpened, PayloadSynchronize,
     PayloadReopened, PayloadClosed, PayloadEmptyAction, PayloadNoAction,
     PayloadNoRepository, PayloadNoPullRequest, PayloadNullRepository, PayloadArray,
     PayloadText}

\* hmac.new(key=secret.encode(), msg=payload, digestmod=hashlib.sha256).hexdigest(),
\* tabulated for the secrets and payloads above
HexDigest(secret, payload) ==
    CASE secret = "test-secret" /\ payload = PayloadTest ->
           <<"b", "4", "8", "2", "0", "c", "e", "c", "8", "7", "1", "e", "f", "f", "5",
             "3", "2", "8", "5", "e", "d", "f", "b", "f", "9", "e", "7", "c", "d", "0",
             "0", "8", "1", "e", "8", "e", "5", "c", "c", "a", "7", "5", "9", "f", "a",
             "3", "b", "0", "4", "5", "3", "d", "9", "0", "2", "3", "4", "8", "9", "4",
             "2", "1", "a", "3">>
      [] secret = "test-secret" /\ payload = PayloadPing ->
           <<"e", "f", "4", "f", "f", "d", "e", "1", "0", "9", "c", "5", "1", "c", "e",
             "f", "5", "7", "5", "4", "0", "b", "b", "6", "1", "6", "f", "4", "e", "8",
             "c", "3", "5", "6", "e", "7", "a", "0", "0", "4", "1", "1", "f", "8", "3",
             "2", "5", "1", "c", "d", "2", "a", "9", "6", "0", "b", "d", "d", "f", "e",
             "d", "9", "a", "1">>
      [] secret = "test-secret" /\ payload = PayloadOpened ->
           <<"e", "a", "1", "3", "3", "5", "1", "a", "8", "f", "d", "b", "9", "4", "b",
             "7", "e", "4", "9", "0", "8", "0", "b", "3", "c", "9", "e", "a", "5", "e",
             "7", "f", "9", "0", "2", "4", "a", "a", "9", "a", "a", "d", "c", "5", "9",
             "f", "8", "5", "4", "b", "3", "e", "8", "3", "7", "c", "d", "d", "f", "f",
             "1", "9", "9", "3">>
      [] secret = "test-secret" /\ payload = PayloadSynchronize ->
           <<"8", "0", "d", "f", "1", "4", "f", "2", "c", "5", "b", "6", "5", "1", "7",
             "b", "f", "7", "2", "9", "b", "a", "9", "e", "b", "8", "d", "f", "5", "8",
             "c", "f", "2", "5", "f", "5", "e", "8", "d", "0", "1", "2", "8", "4", "f",
             "1", "f", "e", "d", "1", "3", "f", "1", "c", "4", "6", "8", "9", "6", "1",
             "a", "2", "3", "2">>
      [] secret = "test-secret" /\ payload = PayloadReopened ->
           <<"7", "6", "2", "5", "0", "d", "6", "e", "e", "f", "6", "c", "9", "b", "9",
             "a", "2", "d", "b", "3", "d", "6", "c", "9", "9", "3", "0", "d", "b", "3",
             "f", "e", "9", "c", "3", "7", "7", "d", "e", "a", "d", "7", "8", "7", "d",
             "a", "1", "7", "c", "c", "4", "0", "8", "a", "7", "7", "9", "5", "3", "e",
             "2", "c", "c", "5">>
      [] secret = "test-secret" /\ payload = PayloadClosed ->
           <<"a", "4", "1", "6", "8", "0", "8", "7", "e", "6", "5", "8", "8", "9", "f",
             "4", "e", "6", "e", "4", "e", "7", "b", "e", "1", "6", "4", "3", "5", "8",
             "6", "5", "e", "4", "6", "7", "b", "c", "8", "b", "d", "e", "9", "3", "f",
             "2", "3", "1", "d", "6", "e", "c", "0", "1", "4", "9", "2", "b", "f", "6",
             "8", "e", "8", "8">>
      [] secret = "test-secret" /\ payload = PayloadEmptyAction ->
           <<"4", "a", "8", "e", "9", "9", "b", "8", "9", "e", "7", "2", "f", "2", "4",
             "1", "7", "a", "c", "6", "9", "a", "a", "b", "9", "9", "5", "6", "6", "a",
             "d", "0", "2", "3", "4", "9", "3", "4", "1", "f", "7", "5", "d", "0", "6",
             "2", "3", "6", "1", "3", "2", "0", "5", "5", "7", "7", "b", "7", "9", "a",
             "4", "d", "c", "d">>
      [] secret = "test-secret" /\ payload = PayloadNoAction ->
           <<"b", "7", "e", "0", "1", "6", "2", "e", "5", "3", "5", "e", "e", "1", "b",
             "f", "9", "d", "7", "f", "0", "5", "a", "e", "9", "9", "5", "8", "b", "c",
             "a", "f", "1", "f", "d", "8", "c", "d", "3", "6", "8", "2", "4", "7", "9",
             "d", "2", "5", "c", "f", "1", "b", "c", "e", "0", "1", "0", "7", "6", "9",
             "f", "b", "1", "d">>
      [] secret = "test-secret" /\ payload = PayloadNoRepository ->
           <<"f", "b", "8", "5", "0", "3", "8", "c", "a", "d", "1", "e", "b", "e", "4",
             "6", "c", "9", "0", "7", "0", "2", "6", "6", "4", "a", "e", "3", "e", "0",
             "b", "3", "3", "1", "5", "7", "2", "e", "a", "7", "5", "f", "c", "0", "c",
             "e", "7", "9", "4", "0", "f", "1", "1", "2", "c", "7", "b", "5", "7", "f",
             "6", "8", "a", "7">>
      [] secret = "test-secret" /\ payload = PayloadNoPullRequest ->
           <<"e", "6", "0", "e", "8", "9", "0", "5", "5", "5", "d", "9", "1", "4", "1",
             "5", "6", "0", "6", "0", "d", "6", "8", "2", "d", "3", "4", "a", "b", "2",
             "a", "d", "c", "a", "4", "5", "7", "f", "e", "a", "4", "b", "c", "0", "8",
             "c", "1", "1", "1", "b", "0", "7", "4", "d", "2", "4", "3", "3", "f", "7",
             "6", "7", "9", "6">>
      [] secret = "test-secret" /\ payload = PayloadNullRepository ->
           <<"f", "a", "1", "4", "5", "1", "1", "6", "7", "7", "1", "d", "9", "4", "4",
             "1", "3", "2", "f", "a", "d", "f", "7", "7", "6", "2", "5", "b", "c", "1",
             "d", "7", "7", "c", "1", "c", "f", "3", "d", "3", "9", "2", "0", "a", "2",
             "3", "d", "3", "a", "2", "c", "b", "0", "a", "7", "0", "1", "c", "e", "c",
             "f", "7", "1", "f">>
      [] secret = "test-secret" /\ payload = PayloadArray ->
           <<"6", "a", "2", "9", "7", "d", "a", "1", "a", "f", "2", "b", "d", "a", "c",
             "f", "a", "8", "a", "7", "e", "6", "f", "e", "d", "d", "0", "7", "3", "b",
             "4", "7", "7", "e", "9", "0", "2", "7", "d", "a", "b", "c", "1", "c", "3",
             "8", "9", "8", "f", "f", "a", "1", "1", "7", "d", "2", "e", "8", "7", "1",
             "9", "b", "c", "c">>
      [] secret = "test-secret" /\ payload = PayloadText ->
           <<"f", "e", "6", "8", "c", "9", "0", "d", "a", "0", "b", "b", "b", "7", "1",
             "2", "f", "0", "f", "5", "c", "5", "0", "6", "6", "3", "c", "6", "a", "3",
             "0", "6", "9", "8", "f", "2", "4", "9", "6", "7", "8", "f", "b", "1", "9",
             "0", "d", "d", "d", "8", "5", "d", "9", "5", "d", "f", "e", "2", "0", "8",
             "f", "a", "a", "6">>
      [] secret = "other-secret" /\ payload = PayloadTest ->
           <<"c", "7", "0", "9", "9", "0", "7", "2", "8", "d", "c", "f", "2", "c", "6",
             "7", "d", "c", "f", "1", "a", "d", "2", "c", "1", "d", "7", "3", "e", "d",
             "3", "3", "f", "d", "1", "c", "1", "8", "4", "7", "a", "d", "0", "9", "1",
             "a", "3", "b", "5", "0", "f", "5", "d", "9", "1", "0", "d", "b", "c", "1",
             "4", "9", "f", "4">>

\* a character outside ASCII (header values are decoded as latin-1)
NonAscii == "<U+00E9>"

Sha256Prefix == <<"s", "h", "a", "2", "5", "6", "=">>

RECURSIVE Replace(_, _)
\* str.replace(old, ""): every occurrence of old is removed, left to right
Replace(s, old) ==
    IF s = <<>> THEN <<>>
    ELSE IF StartsWith(s, old) THEN Replace(SubSeq(s, Len(old) + 1, Len(s)), old)
    ELSE <<Head(s)>> \o Replace(Tail(s), old)

\* hmac.compare_digest on two str: TypeError unless both are ASCII
compare_digest(a, b) ==
    IF \E i \in 1..Len(b) : b[i] = NonAscii THEN "TypeError"
    ELSE IF a = b THEN "True" ELSE "False"

\* verify_signature(payload, signature, secret): "True", "False", or the exception
verify_signature(payload, signature, secret) ==
    IF signature = PyNone \/ signature = <<>> \/ ~StartsWith(signature, Sha256Prefix)
    THEN "False"
    ELSE compare_digest(HexDigest(secret, payload), Replace(signature, Sha256Prefix))

SigIdle ==
    /\ sPayload = ""
    /\ sSignature = PyNone
    /\ sSecret = ""
    /\ sResult = NoReturn
    /\ spc = "idle"

-----------------------------------------------------------------------------
(* pr_agent/github/webhook.py: github_webhook and process_pull_request *)

\* what json.loads yields
JObject(d) == [k |-> "dict", d |-> d]
JString(text) == [k |-> "str", s |-> text]
JNumber(n) == [k |-> "int", n |-> n]
JNull == [k |-> "null"]
JArray == [k |-> "list"]

\* the pull_request payload with this action
PullRequestPayload(action) ==
    JObject([action |-> JString(action),
             repository |-> JObject([full_name |-> JString("owner/repo")]),
             pull_request |-> JObject([number |-> JNumber(123)])])

\* json.loads(payload): the value, or JSONDecodeError
JsonLoads(payload) ==
    CASE payload = PayloadTest -> [ok |-> TRUE, value |-> JObject([test |-> JString("data")])]
      [] payload = PayloadPing ->
           [ok |-> TRUE, value |-> JObject([zen |-> JString("Test ping")])]
      [] payload = PayloadOpened -> [ok |-> TRUE, value |-> PullRequestPayload("opened")]
      [] payload = PayloadSynchronize ->
           [ok |-> TRUE, value |-> PullRequestPayload("synchronize")]
      [] payload = PayloadReopened -> [ok |-> TRUE, value |-> PullRequestPayload("reopened")]
      [] payload = PayloadClosed -> [ok |-> TRUE, value |-> PullRequestPayload("closed")]
      [] payload = PayloadEmptyAction -> [ok |-> TRUE, value |-> PullRequestPayload("")]
      [] payload = PayloadNoAction ->
           [ok |-> TRUE,
            value |-> JObject([repository |-> JObject([full_name |-> JString("owner/repo")]),
                               pull_request |-> JObject([number |-> JNumber(123)])])]
      [] payload = PayloadNoRepository ->
           [ok |-> TRUE,
            value |-> JObject([action |-> JString("opened"),
                               pull_request |-> JObject([number |-> JNumber(123)])])]
      [] payload = PayloadNoPullRequest ->
           [ok |-> TRUE,
            value |-> JObject([action |-> JString("opened"),
                               repository |-> JObject([full_name |-> JString("owner/repo")])])]
      [] payload = PayloadNullRepository ->
           [ok |-> TRUE,
            value |-> JObject([action |-> JString("opened"), repository |-> JNull,
                               pull_request |-> JObject([number |-> JNumber(123)])])]
      [] payload = PayloadArray -> [ok |-> TRUE, value |-> JArray]
      [] OTHER -> [ok |-> FALSE, value |-> JNull]

\* obj.get(key, default): AttributeError when obj is not a dict
Get(obj, key, default) ==
    IF obj.k # "dict" THEN [raised |-> TRUE, value |-> JNull]
    ELSE [raised |-> FALSE, value |-> IF key \in DOMAIN obj.d THEN obj.d[key] ELSE default]

\* data.get(outer, {}).get(inner)
GetNested(data, outer, inner) ==
    IF Get(data, outer, JObject(<<>>)).raised THEN Get(data, outer, JObject(<<>>))
    ELSE Get(Get(data, outer, JObject(<<>>)).value, inner, JNull)

\* "not value"
Falsy(value) ==
    \/ value.k \in {"null", "list"}
    \/ value.k = "str" /\ value.s = ""
    \/ value.k = "int" /\ value.n = 0
    \/ value.k = "dict" /\ DOMAIN value.d = {}

\* how an f-string renders a value
Str(value) == IF value.k = "str" THEN value.s ELSE ToString(value.n)

\* a header or an environment variable: absent, or a string
NoHeader == [given |-> FALSE, val |-> ""]
Header(text) == [given |-> TRUE, val |-> text]

\* what the handler does: a response, and the tasks it added to background_tasks
HTTPException(status_code, detail) ==
    [status |-> status_code, body |-> [detail |-> detail], tasks |-> <<>>]
Returned(body, tasks) == [status |-> 200, body |-> body, tasks |-> tasks]
\* an exception other than HTTPException leaves the handler
InternalServerError ==
    [status |-> 500, body |-> [text |-> "Internal Server Error"], tasks |-> <<>>]

\* the arguments of the task the pull_request branch adds
PullRequestTask(data) ==
    [repo_name |-> GetNested(data, "repository", "full_name").value,
     pr_number |-> GetNested(data, "pull_request", "number").value,
     action |-> Get(data, "action", JNull).value]

\* the pull_request branch with add_task moved in front of the check of the fields
PullRequestEvent_TaskBeforeCheck(data) ==
    IF \/ GetNested(data, "repository", "full_name").raised
       \/ GetNested(data, "pull_request", "number").raised
       \/ Get(data, "action", JNull).raised
    THEN InternalServerError
    ELSE IF \/ Falsy(GetNested(data, "repository", "full_name").value)
            \/ Falsy(GetNested(data, "pull_request", "number").value)
            \/ Falsy(Get(data, "action", JNull).value)
    THEN [status |-> 400, body |-> [detail |-> "Missing required fields"],
          tasks |-> <<PullRequestTask(data)>>]
    ELSE Returned(
             [message |-> "Processing PR #" \o Str(PullRequestTask(data).pr_number)
                          \o " in " \o Str(PullRequestTask(data).repo_name),
              status |-> "accepted"],
             <<PullRequestTask(data)>>)

\* the pull_request branch with the test of the action made in the handler
PullRequestEvent_ActionTested(data) ==
    IF \/ GetNested(data, "repository", "full_name").raised
       \/ GetNested(data, "pull_request", "number").raised
       \/ Get(data, "action", JNull).raised
    THEN InternalServerError
    ELSE IF \/ Falsy(GetNested(data, "repository", "full_name").value)
            \/ Falsy(GetNested(data, "pull_request", "number").value)
            \/ Falsy(Get(data, "action", JNull).value)
    THEN HTTPException(400, "Missing required fields")
    ELSE IF Get(data, "action", JNull).value
            \notin {JString("opened"), JString("synchronize"), JString("reopened")}
    THEN Returned([message |-> "Ignoring PR action", status |-> "ignored"], <<>>)
    ELSE Returned(
             [message |-> "Processing PR #" \o Str(PullRequestTask(data).pr_number)
                          \o " in " \o Str(PullRequestTask(data).repo_name),
              status |-> "accepted"],
             <<PullRequestTask(data)>>)

\* the pull_request branch of github_webhook
PullRequestEvent(data) ==
    IF \/ GetNested(data, "repository", "full_name").raised
       \/ GetNested(data, "pull_request", "number").raised
       \/ Get(data, "action", JNull).raised
    THEN InternalServerError
    ELSE IF \/ Falsy(GetNested(data, "repository", "full_name").value)
            \/ Falsy(GetNested(data, "pull_request", "number").value)
            \/ Falsy(Get(data, "action", JNull).value)
    THEN HTTPException(400, "Missing required fields")
    ELSE Returned(
             [message |-> "Processing PR #" \o Str(PullRequestTask(data).pr_number)
                          \o " in " \o Str(PullRequestTask(data).repo_name),
              status |-> "accepted"],
             <<PullRequestTask(data)>>)

\* github_webhook(request, background_tasks)
github_webhook(webhook_secret, request) ==
    IF ~webhook_secret.given \/ webhook_secret.val = ""
    THEN HTTPException(500, "Webhook secret not configured")
    ELSE IF verify_signature(request.payload, request.signature, webhook_secret.val)
            = "TypeError"
    THEN InternalServerError
    ELSE IF verify_signature(request.payload, request.signature, webhook_secret.val)
            = "False"
    THEN HTTPException(401, "Invalid signature")
    ELSE IF ~request.event.given \/ request.event.val = ""
    THEN HTTPException(400, "Missing event type")
    ELSE IF ~JsonLoads(request.payload).ok
    THEN HTTPException(400, "Invalid JSON payload")
    ELSE IF request.event.val = "ping" THEN Returned([message |-> "Pong!"], <<>>)
    ELSE IF request.event.val = "pull_request"
    THEN PullRequestEvent(JsonLoads(request.payload).value)
    ELSE Returned([message |-> "Event type " \o request.event.val \o " not supported"],
                  <<>>)

\* process_pull_request without its test of the action
TriggersReview_AnyAction(action) == TRUE

\* process_pull_request: action in ["opened", "synchronize", "reopened"]
TriggersReview(action) ==
    action.k = "str" /\ action.s \in {"opened", "synchronize", "reopened"}

\* a handler that awaits the review would answer with its failure
ResponseAfterTask_Awaited(response, outcome) ==
    IF outcome = "failed"
    THEN [status |-> InternalServerError.status, body |-> InternalServerError.body]
    ELSE response

\* the response was sent before the background task ran: the task cannot change it
ResponseAfterTask(response, outcome) == response

NoResponse == [status |-> 0]

HookIdle ==
    /\ hSecret = NoHeader
    /\ hRequest = [signature |-> PyNone, event |-> NoHeader, payload |-> ""]
    /\ hResponse = NoResponse
    /\ hTasks = <<>>
    /\ hLog = <<>>
    /\ hpc = "idle"

\* one review run at a time: the event loop holds no other run
NoFrame == [pc |-> "none"]
LoopIdle ==
    /\ suspended = NoFrame
    /\ overlapped = FALSE

DiffIdle ==
    /\ dPatch = <<>>
    /\ dLine = 0
    /\ dIsNew = TRUE
    /\ dLineRef = NullLine
    /\ dHunks = <<>>
    /\ dPosition = NotFound
    /\ dpc = "idle"
    /\ dFilename = <<>>
    /\ dExtension = <<>>
    /\ dBinary = FALSE

Init ==
    /\ pc = "new"
    /\ envMaxFiles \in {PyNone, <<"2">>}
    /\ argMaxFiles \in {NoArg} \cup {ArgOf(n) : n \in 0..MaxFilesArg}
    /\ max_files = 0
    /\ post_comments \in BOOLEAN
    /\ apiFiles \in FileLists
    /\ pr_files = <<>>
    /\ idx = 0
    /\ file_reviews = <<>>
    /\ review_comments = <<>>
    /\ summary = ""
    /\ apiReads = <<>>
    /\ modelCalls = <<>>
    /\ publishCalls = <<>>
    /\ publishReturn = NoReturn
    /\ result = NoResult
    /\ failedAt = ""
    /\ DiffIdle
    /\ SigIdle
    /\ HookIdle
    /\ LoopIdle

Next ==
    \/ Construct
    \/ \E outcome \in RetrievalOutcomes : GetPullRequest(outcome)
    \/ \E outcome \in RetrievalOutcomes : GetPrFiles(outcome)
    \/ SkipFile
    \/ \E resp \in Responses : AnalyzeFile(resp)
    \/ \E outcome \in SummaryOutcomes : Summarize(outcome)
    \/ \E outcome \in PublishOutcomes : PostReview(outcome)

Spec == Init /\ [][Next]_vars

-----------------------------------------------------------------------------
(* Calls of the diff utilities on their own *)

\* two hunks, the second header carrying trailing context text
PatchTwoHunks ==
    Join(<< <<"@", "@", " ", "-", "1", ",", "2", " ", "+", "1", ",", "2", " ", "@", "@">>,
            <<" ", "a">>, <<"-", "b">>, <<"+", "c">>,
            <<"@", "@", " ", "-", "4", ",", "2", " ", "+", "4", ",", "3", " ", "@", "@",
              " ", "d", "e", "f", " ", "f", "(", ")", ":">>,
            <<" ", "x">>, <<"+", "y">>, <<" ", "z">> >>)

\* file markers before the first header
PatchPreamble ==
    Join(<< <<"-", "-", "-", " ", "a", "/", "f">>, <<"+", "+", "+", " ", "b", "/", "f">>,
            <<"@", "@", " ", "-", "1", ",", "1", " ", "+", "1", ",", "2", " ", "@", "@">>,
            <<" ", "a">>, <<"+", "b">> >>)

\* the only header is of the one-number form, which the pattern does not match
PatchShortHeader ==
    Join(<< <<"@", "@", " ", "-", "1", " ", "+", "1", " ", "@", "@">>,
            <<"-", "a">>, <<"+", "b">> >>)

\* a one-number header between two recognized hunks
PatchMixedHeaders ==
    Join(<< <<"@", "@", " ", "-", "1", ",", "1", " ", "+", "1", ",", "2", " ", "@", "@">>,
            <<" ", "a">>, <<"+", "b">>,
            <<"@", "@", " ", "-", "5", " ", "+", "5", " ", "@", "@">>,
            <<"-", "p">>, <<"+", "q">>,
            <<"@", "@", " ", "-", "3", ",", "2", " ", "+", "3", ",", "2", " ", "@", "@">>,
            <<" ", "x">>, <<"+", "y">> >>)

\* hunk lines whose text begins with -- or ++ (a removed "-- x", an added "++ y")
PatchMarkerLines ==
    Join(<< <<"@", "@", " ", "-", "1", ",", "3", " ", "+", "1", ",", "3", " ", "@", "@">>,
            <<" ", "a">>, <<"-", "-", "-", " ", "x">>, <<"+", "+", "+", " ", "y">>,
            <<" ", "b">> >>)

\* a one-line file rewritten, neither version ending in a newline: diff adds the
\* "\ No newline at end of file" marker after the last line
PatchNoNewline ==
    Join(<< <<"@", "@", " ", "-", "1", ",", "1", " ", "+", "1", ",", "1", " ", "@", "@">>,
            <<"-", "a">>, <<"+", "b">>,
            <<"\\", " ", "N", "o", " ", "n", "e", "w", "l", "i", "n", "e", " ", "a", "t", " ",
              "e", "n", "d", " ", "o", "f", " ", "f", "i", "l", "e">> >>)

\* two lines added far into a file: header numbers of more than one digit
PatchLateHunk ==
    Join(<< <<"@", "@", " ", "-", "1", "0", ",", "0", " ", "+", "1", "2", ",", "2", " ",
              "@", "@">>,
            <<"+", "p">>, <<"+", "q">> >>)

Patches ==
    {PyNone, <<>>, PatchExample, PatchTwoAdded, PatchTwoHunks, PatchPreamble,
     PatchShortHeader, PatchMixedHeaders, PatchMarkerLines, PatchNoNewline,
     PatchLateHunk}

\* hunks = parse_patch(patch)
CallParsePatch ==
    /\ dpc = "call"
    /\ dHunks' = parse_patch(dPatch)
    /\ dpc' = "parsed"
    /\ UNCHANGED <<dPatch, dLine, dIsNew, dLineRef, dPosition, dFilename, dExtension, dBinary,
                   reviewVars, sigVars, hookVars, loopVars>>

\* position = map_line_to_position(patch, line_number, is_new_file)
CallMapLineToPosition ==
    /\ dpc = "call"
    /\ dHunks' = parse_patch(dPatch)
    /\ dPosition' = map_line_to_position(dPatch, dLine, dIsNew)
    /\ dpc' = "mapped"
    /\ UNCHANGED <<dPatch, dLine, dIsNew, dLineRef, dFilename, dExtension, dBinary,
                   reviewVars, sigVars, hookVars, loopVars>>

\* the line references _get_position_from_line is called on: numbers, the text of
\* a number, ranges, other text, null, and the float of a JSON number beyond the
\* range of floats
LineRefs ==
    {IntLine(n) : n \in 0..MaxLine}
    \cup {StrLine(<<"2">>), StrLine(<<"2", "-", "3">>), StrLine(<<"1", "-", "2">>),
          StrLine(<<"9", "-", "1", "0">>), StrLine(<<"-", "5">>),
          StrLine(<<"a", "b", "c">>), StrLine(<<>>), NullLine, InfLine}

\* position = reviewer._get_position_from_line(patch, line_ref)
CallGetPositionFromLine ==
    /\ dpc = "ref"
    /\ dPosition' = _get_position_from_line(dPatch, dLineRef)
    /\ dpc' = "positioned"
    /\ UNCHANGED <<dPatch, dLine, dIsNew, dLineRef, dHunks, dFilename, dExtension, dBinary,
                   reviewVars, sigVars, hookVars, loopVars>>

\* the filenames the extension functions are called on
Filenames ==
    {<<>>, <<"r", "e", "a", "d", "m", "e">>, <<"p", "n", "g">>,
     <<"p", "h", "o", "t", "o", ".", "P", "N", "G">>,
     <<"p", "h", "o", "t", "o", ".", "p", "n", "g">>,
     <<"a", "r", "c", "h", "i", "v", "e", ".", "t", "a", "r", ".", "g", "z">>,
     <<"a", "r", "c", "h", "i", "v", "e", ".", "t", "a", "r", ".", "G", "z">>,
     <<"R", "e", "p", "o", "r", "t", ".", "P", "d", "f">>,
     <<"m", "a", "i", "n", ".", "p", "y">>, <<"M", "a", "i", "n", ".", "P", "Y">>,
     <<"c", ".", "s", "v", "g">>, <<"l", "i", "b", ".", "s", "o", ".", "1">>,
     <<"l", "i", "b", "x", ".", "S", "O">>, <<"x", ".", "7", "Z">>,
     <<".", "g", "i", "t", "i", "g", "n", "o", "r", "e">>, <<"n", "o", "t", "e", "s", ".">>,
     <<"a", ".", "z", "i", "p", "/", "r", "e", "a", "d", "m", "e">>,
     <<"d", "a", "t", "a", ".", "D", "A", "T">>, <<"d", "a", "t", "a", ".", "d", "a", "t", "a">>}

\* extension = get_file_extension(filename)
CallGetFileExtension ==
    /\ dpc = "name"
    /\ dExtension' = get_file_extension(dFilename)
    /\ dpc' = "extension"
    /\ UNCHANGED <<dPatch, dLine, dIsNew, dLineRef, dHunks, dPosition, dFilename, dBinary,
                   reviewVars, sigVars, hookVars, loopVars>>

\* binary = is_binary_file(filename)
CallIsBinaryFile ==
    /\ dpc = "name"
    /\ dExtension' = get_file_extension(dFilename)
    /\ dBinary' = is_binary_file(dFilename)
    /\ dpc' = "binary"
    /\ UNCHANGED <<dPatch, dLine, dIsNew, dLineRef, dHunks, dPosition, dFilename,
                   reviewVars, sigVars, hookVars, loopVars>>

ReviewIdle ==
    /\ pc = "idle"
    /\ envMaxFiles = PyNone
    /\ argMaxFiles = NoArg
    /\ max_files = 0
    /\ post_comments = FALSE
    /\ apiFiles = <<>>
    /\ pr_files = <<>>
    /\ idx = 0
    /\ file_reviews = <<>>
    /\ review_comments = <<>>
    /\ summary = ""
    /\ apiReads = <<>>
    /\ modelCalls = <<>>
    /\ publishCalls = <<>>
    /\ publishReturn = NoReturn
    /\ result = NoResult
    /\ failedAt = ""

\* a call on a patch, or a call on a filename
InitDiff ==
    /\ ReviewIdle
    /\ \/ /\ dPatch \in Patches
          /\ dLine \in 0..MaxLine
          /\ dIsNew \in BOOLEAN
          /\ dLineRef = NullLine
          /\ dFilename = <<>>
          /\ dpc = "call"
       \/ /\ dPatch = <<>>
          /\ dLine = 0
          /\ dIsNew = TRUE
          /\ dLineRef = NullLine
          /\ dFilename \in Filenames
          /\ dpc = "name"
       \/ /\ dPatch \in Patches \ {PyNone}
          /\ dLine = 0
          /\ dIsNew = TRUE
          /\ dLineRef \in LineRefs
          /\ dFilename = <<>>
          /\ dpc = "ref"
    /\ dHunks = <<>>
    /\ dPosition = NotFound
    /\ dExtension = <<>>
    /\ dBinary = FALSE
    /\ SigIdle
    /\ HookIdle
    /\ LoopIdle

NextDiff ==
    \/ CallParsePatch
    \/ CallMapLineToPosition
    \/ CallGetPositionFromLine
    \/ CallGetFileExtension
    \/ CallIsBinaryFile

SpecDiff == InitDiff /\ [][NextDiff]_vars

-----------------------------------------------------------------------------
(* Calls of verify_signature on their own *)

\* the X-Hub-Signature-256 value a sender computes
SignatureHeader(secret, payload) == Sha256Prefix \o HexDigest(secret, payload)

\* the characters a header character is replaced by
MutationChars == {"0", "a", "f", "g", "S", "=", NonAscii}

\* s with one character replaced
Mutations(s) == {[s EXCEPT ![i] = c] : i \in 1..Len(s), c \in MutationChars} \ {s}

\* s with one more "sha256=" in it: in front, inside the digest, at the end
Doubled(s) ==
    {SubSeq(s, 1, i) \o Sha256Prefix \o SubSeq(s, i + 1, Len(s)) : i \in {0, 7, 17, Len(s)}}

\* the (secret, payload) pairs verify_signature is called on
SignedPairs ==
    {<<"test-secret", PayloadTest>>, <<"test-secret", PayloadPing>>,
     <<"other-secret", PayloadTest>>}

\* the signature arguments tried for a pair
Signatures(secret, payload) ==
    {PyNone, <<>>, <<"i", "n", "v", "a", "l", "i", "d">>,
     Sha256Prefix \o <<"i", "n", "v", "a", "l", "i", "d">>,
     HexDigest(secret, payload), SignatureHeader(secret, payload),
     SignatureHeader("test-secret", PayloadTest),
     SignatureHeader("other-secret", PayloadTest)}
    \cup Mutations(SignatureHeader(secret, payload))
    \cup Doubled(SignatureHeader(secret, payload))

\* result = verify_signature(payload, signature, secret)
CallVerifySignature ==
    /\ spc = "call"
    /\ sResult' = verify_signature(sPayload, sSignature, sSecret)
    /\ spc' = "returned"
    /\ UNCHANGED <<sPayload, sSignature, sSecret, reviewVars, diffVars, hookVars, loopVars>>

InitSig ==
    /\ ReviewIdle
    /\ DiffIdle
    /\ \E pair \in SignedPairs :
           /\ sSecret = pair[1]
           /\ sPayload = pair[2]
           /\ sSignature \in Signatures(pair[1], pair[2])
    /\ sResult = NoReturn
    /\ spc = "call"
    /\ HookIdle
    /\ LoopIdle

NextSig == CallVerifySignature

SpecSig == InitSig /\ [][NextSig]_vars

-----------------------------------------------------------------------------
(* A webhook request, its response and its background task *)

\* POST /webhook: the handler runs to its response; the tasks it added run after
\* the response has been sent
ReceiveWebhook ==
    /\ hpc = "request"
    /\ hResponse' = [status |-> github_webhook(hSecret, hRequest).status,
                     body |-> github_webhook(hSecret, hRequest).body]
    /\ hTasks' = github_webhook(hSecret, hRequest).tasks
    /\ hpc' = "responded"
    /\ UNCHANGED <<hSecret, hRequest, hLog, reviewVars, diffVars, sigVars, loopVars>>

\* process_pull_request returning at "Ignoring PR action"
IgnoreAction ==
    /\ hpc = "responded"
    /\ hTasks # <<>>
    /\ ~TriggersReview(hTasks[1].action)
    /\ hLog' = <<"Processing PR", "Ignoring PR action: " \o Str(hTasks[1].action)>>
    /\ hpc' = "finished"
    /\ UNCHANGED <<hSecret, hRequest, hResponse, hTasks, reviewVars, diffVars, sigVars, loopVars>>

\* process_pull_request up to the call of PRReviewer: GitHubClient() raises
\* ValueError without GITHUB_TOKEN, and so does OpenAIModel() in PRReviewer.__init__
\* without OPENAI_API_KEY; both are outside the try block
StartReview(setup) ==
    /\ hpc = "responded"
    /\ hTasks # <<>>
    /\ TriggersReview(hTasks[1].action)
    /\ IF setup = "ok"
       THEN /\ pc' = "new"
            /\ post_comments' = TRUE
            /\ hLog' = <<"Processing PR">>
            /\ hpc' = "reviewing"
       ELSE /\ hLog' = <<"Processing PR", "ValueError: " \o setup>>
            /\ hpc' = "finished"
            /\ UNCHANGED <<pc, post_comments>>
    /\ UNCHANGED <<envMaxFiles, argMaxFiles, max_files, apiFiles, pr_files, idx,
                   file_reviews, review_comments, summary, apiReads, modelCalls,
                   publishCalls, publishReturn, result, failedAt,
                   hSecret, hRequest, hResponse, hTasks, diffVars, sigVars, loopVars>>

\* process_pull_request after "await reviewer.review_pr(...)": the success is
\* logged, an exception is caught and logged
FinishReview ==
    /\ hpc = "reviewing"
    /\ pc \in {"done", "failed"}
    /\ hLog' = Append(hLog, IF pc = "done" THEN "Successfully reviewed PR"
                            ELSE "Error reviewing PR: " \o failedAt)
    /\ hResponse' = ResponseAfterTask(hResponse, pc)
    /\ hpc' = "finished"
    /\ UNCHANGED <<hSecret, hRequest, hTasks, reviewVars, diffVars, sigVars, loopVars>>

SetupOutcomes == {"ok", "GITHUB_TOKEN not set", "OPENAI_API_KEY not set"}

\* the shared secret on the server: unset, empty, or the sender's
Secrets == {NoHeader, Header(""), Header("test-secret")}

EventTypes == {NoHeader, Header(""), Header("ping"), Header("pull_request"), Header("push")}

\* the X-Hub-Signature-256 header of a request with this body: absent, empty, the
\* digest without its prefix, the sender's signature, the signature of another
\* body, the signature with a second prefix, and with a character outside ASCII
HookSignatures(payload) ==
    {PyNone, <<>>, HexDigest("test-secret", payload),
     SignatureHeader("test-secret", payload),
     SignatureHeader("other-secret", PayloadTest),
     Sha256Prefix \o SignatureHeader("test-secret", payload),
     [SignatureHeader("test-secret", payload) EXCEPT ![71] = NonAscii]}

\* the changed files of the pull request the event is about
HookFileLists == {<<>>, <<FileA, FileB>>, <<FileD>>}

InitHook ==
    /\ pc = "idle"
    /\ envMaxFiles = PyNone
    /\ argMaxFiles = NoArg
    /\ max_files = 0
    /\ post_comments = FALSE
    /\ apiFiles \in HookFileLists
    /\ pr_files = <<>>
    /\ idx = 0
    /\ file_reviews = <<>>
    /\ review_comments = <<>>
    /\ summary = ""
    /\ apiReads = <<>>
    /\ modelCalls = <<>>
    /\ publishCalls = <<>>
    /\ publishReturn = NoReturn
    /\ result = NoResult
    /\ failedAt = ""
    /\ DiffIdle
    /\ SigIdle
    /\ hSecret \in Secrets
    /\ \E payload \in Payloads :
           hRequest \in [signature : HookSignatures(payload), event : EventTypes,
                         payload : {payload}]
    /\ hResponse = NoResponse
    /\ hTasks = <<>>
    /\ hLog = <<>>
    /\ hpc = "request"
    /\ LoopIdle

NextHook ==
    \/ ReceiveWebhook
    \/ IgnoreAction
    \/ \E setup \in SetupOutcomes : StartReview(setup)
    \/ Next
    \/ FinishReview

SpecHook == InitHook /\ [][NextHook]_vars

-----------------------------------------------------------------------------
(* Two review runs in one event loop: the run that holds the variables of the   *)
(* review run is the one running, the other is suspended at an await            *)

\* the frame of the running review_pr: its arguments, its locals, the reviewer it
\* was called on and the calls it has made.  The environment is the process's
CurrentFrame ==
    [pc |-> pc, argMaxFiles |-> argMaxFiles, max_files |-> max_files,
     post_comments |-> post_comments, apiFiles |-> apiFiles, pr_files |-> pr_files,
     idx |-> idx, file_reviews |-> file_reviews, review_comments |-> review_comments,
     summary |-> summary, apiReads |-> apiReads, modelCalls |-> modelCalls,
     publishCalls |-> publishCalls, publishReturn |-> publishReturn,
     result |-> result, failedAt |-> failedAt]

\* a reviewer that keeps file_reviews on an object both runs use
ResumedFrame_SharedReviews(frame) == [frame EXCEPT !.file_reviews = file_reviews]

\* what a run finds when it resumes: file_reviews, review_comments and the rest are
\* locals of review_pr, and process_pull_request makes a reviewer for each run
ResumedFrame(frame) == frame

\* the run has awaited a model call and has not finished
MidRun(frame) == frame.pc = "files" /\ frame.modelCalls # <<>>

\* the event loop suspends the running review and resumes the other
Switch ==
    /\ suspended # NoFrame
    /\ suspended.pc \notin {"done", "failed"}
    /\ suspended' = CurrentFrame
    /\ overlapped' = (overlapped \/ (MidRun(CurrentFrame) /\ MidRun(suspended)))
    /\ pc' = ResumedFrame(suspended).pc
    /\ argMaxFiles' = ResumedFrame(suspended).argMaxFiles
    /\ max_files' = ResumedFrame(suspended).max_files
    /\ post_comments' = ResumedFrame(suspended).post_comments
    /\ apiFiles' = ResumedFrame(suspended).apiFiles
    /\ pr_files' = ResumedFrame(suspended).pr_files
    /\ idx' = ResumedFrame(suspended).idx
    /\ file_reviews' = ResumedFrame(suspended).file_reviews
    /\ review_comments' = ResumedFrame(suspended).review_comments
    /\ summary' = ResumedFrame(suspended).summary
    /\ apiReads' = ResumedFrame(suspended).apiReads
    /\ modelCalls' = ResumedFrame(suspended).modelCalls
    /\ publishCalls' = ResumedFrame(suspended).publishCalls
    /\ publishReturn' = ResumedFrame(suspended).publishReturn
    /\ result' = ResumedFrame(suspended).result
    /\ failedAt' = ResumedFrame(suspended).failedAt
    /\ UNCHANGED <<envMaxFiles, diffVars, sigVars, hookVars>>

\* the pull requests the two runs review, and what the model answers them
LoopFileLists == {<<FileD>>, <<FileA, FileB, FileD>>}
LoopResponses == {ResponseError, ResponseText, ResponseJson(JsonDict(<<IssueTwo>>, "r1"))}

\* a run that has not started
NewFrame(post, files) ==
    [pc |-> "new", argMaxFiles |-> NoArg, max_files |-> 0, post_comments |-> post,
     apiFiles |-> files, pr_files |-> <<>>, idx |-> 0, file_reviews |-> <<>>,
     review_comments |-> <<>>, summary |-> "", apiReads |-> <<>>, modelCalls |-> <<>>,
     publishCalls |-> <<>>, publishReturn |-> NoReturn, result |-> NoResult,
     failedAt |-> ""]

InitLoop ==
    /\ pc = "new"
    /\ envMaxFiles \in {PyNone, <<"1">>}
    /\ argMaxFiles = NoArg
    /\ max_files = 0
    /\ post_comments \in BOOLEAN
    /\ apiFiles \in LoopFileLists
    /\ pr_files = <<>>
    /\ idx = 0
    /\ file_reviews = <<>>
    /\ review_comments = <<>>
    /\ summary = ""
    /\ apiReads = <<>>
    /\ modelCalls = <<>>
    /\ publishCalls = <<>>
    /\ publishReturn = NoReturn
    /\ result = NoResult
    /\ failedAt = ""
    /\ DiffIdle
    /\ SigIdle
    /\ HookIdle
    /\ suspended \in {NewFrame(post, files) : post \in BOOLEAN, files \in LoopFileLists}
    /\ overlapped = FALSE

NextLoop ==
    \/ Construct
    \/ \E outcome \in {"ok", "pr_not_found"} : GetPullRequest(outcome)
    \/ \E outcome \in {"ok", "pr_not_found"} : GetPrFiles(outcome)
    \/ SkipFile
    \/ \E resp \in LoopResponses : AnalyzeFile(resp)
    \/ \E outcome \in SummaryOutcomes : Summarize(outcome)
    \/ \E outcome \in {"ok", "GithubException"} : PostReview(outcome)
    \/ Switch

SpecLoop == InitLoop /\ [][NextLoop]_vars

-----------------------------------------------------------------------------
(* What the properties below speak of *)

AnalyzeCalls == SelectSeq(modelCalls, LAMBDA c : c.op = "analyze_diff")
FileNames(seq) == [i \in 1..Len(seq) |-> seq[i].filename]
NameSet(seq) == {seq[i].filename : i \in 1..Len(seq)}
IsPrefix(a, b) == Len(a) <= Len(b) /\ SubSeq(b, 1, Len(a)) = a
Smaller(a, b) == IF a < b THEN a ELSE b

\* a file that is not removed and carries patch text
Reviewable(file) == file.status # "removed" /\ file.patch \notin {PyNone, <<>>}

\* the run got past retrieval and has not been ended by an exception
Running == pc \in {"files", "publish", "done"}

\* an issue with a line value: a line number (lines count from 1) or a non-empty
\* reference; null, 0 and "" are no value
HasLineValue(issue) ==
    /\ "line" \in DOMAIN issue
    /\ issue.line # NullLine
    /\ issue.line # IntLine(0)
    /\ issue.line # StrLine(<<>>)

RECURSIVE IssuesWithLine(_)
\* the issues with a line value of all file reviews, in order, each with its file
IssuesWithLine(reviews) ==
    IF reviews = <<>> THEN <<>>
    ELSE LET r == Head(reviews)
             own == IF r.review.t = "dict"
                    THEN SelectSeq([i \in 1..Len(r.review.issues) |->
                                       [filename |-> r.filename, issue |-> r.review.issues[i]]],
                                   LAMBDA e : HasLineValue(e.issue))
                    ELSE <<>>
         IN  own \o IssuesWithLine(Tail(reviews))

\* the changed file of the pull request with this name
FileNamed(name) == CHOOSE f \in ChangedFiles : f.filename = name

-----------------------------------------------------------------------------
(* C1..C10 *)

\* C1 (fails for max_files = 0): for every max_files >= 0 given to the reviewer,
\* review_pr considers exactly the first min(len(files), max_files) files: no
\* analyze_diff call and no FileReview is for a file beyond them, and there are at
\* most max_files analyze_diff calls.
C1_ConsidersFirstMaxFiles ==
    argMaxFiles.given =>
        LET kept == SubSeq(apiFiles, 1, Smaller(Len(apiFiles), argMaxFiles.val))
        IN  /\ Len(AnalyzeCalls) <= argMaxFiles.val
            /\ NameSet(AnalyzeCalls) \subseteq NameSet(kept)
            /\ NameSet(file_reviews) \subseteq NameSet(kept)
            /\ Running => pr_files = kept

\* C2: analyze_diff is called exactly once for each retained file that is not
\* removed and carries patch text, in file order, and for no other file; file_reviews
\* has one entry per such file in the same order.  While the loop runs this holds of
\* the files consumed so far, and a run that goes on to the summary has consumed
\* them all; a run ended by an exception has called for a prefix of them only.
C2_OneAnalysisPerReviewableFile ==
    LET consumed == FileNames(SelectSeq(SubSeq(pr_files, 1, idx), Reviewable))
        all == FileNames(SelectSeq(pr_files, Reviewable))
    IN  /\ pc # "failed" =>
              /\ FileNames(AnalyzeCalls) = consumed
              /\ FileNames(file_reviews) = consumed
        /\ pc \in {"publish", "done"} => idx = Len(pr_files)
        /\ pc = "failed" =>
              /\ IsPrefix(FileNames(AnalyzeCalls), all)
              /\ IsPrefix(FileNames(file_reviews), FileNames(AnalyzeCalls))

C2_Witness ==
    /\ pc = "done"
    /\ Len(pr_files) = 3
    /\ Len(file_reviews) = 2
    /\ Len(AnalyzeCalls) = 2
    /\ \E i \in 1..3 : pr_files[i].status = "removed" /\ pr_files[i].patch # PyNone

\* C3: with post_comments, a run that reaches publishing makes exactly one publish
\* call: add_pr_review with all the comment requests and the summary in its body
\* when there is at least one comment request, else add_pr_comment with the summary
\* alone.  Before publishing, and without post_comments, there is no publish call.
C3_ExactlyOnePublishCall ==
    LET published == pc = "done" \/ (pc = "failed" /\ failedAt = "publish")
    IN  /\ (post_comments /\ published) =>
              /\ Len(publishCalls) = 1
              /\ IF review_comments # <<>>
                 THEN /\ publishCalls[1].op = "add_pr_review"
                      /\ publishCalls[1].comments = review_comments
                      /\ publishCalls[1].body = <<comment_prefix, " Review Summary\n\n", summary>>
                 ELSE /\ publishCalls[1].op = "add_pr_comment"
                      /\ publishCalls[1].comment = <<comment_prefix, " Review Summary\n\n", summary>>
        /\ ~(post_comments /\ published) => publishCalls = <<>>

C3_Witness ==
    /\ pc = "done"
    /\ post_comments
    /\ Len(publishCalls) = 1
    /\ publishCalls[1].op = "add_pr_review"
    /\ Len(publishCalls[1].comments) >= 2

\* C4 (fails): a publish failure never aborts a review: once the publish call is
\* made, add_pr_comment / add_pr_review return true or false and review_pr returns
\* the ReviewResult of file_reviews and summary.
C4_PublishFailureNeverAborts ==
    publishCalls # <<>> =>
        /\ pc = "done"
        /\ publishReturn \in {"True", "False"}
        /\ result = [returned |-> TRUE, pr |-> PrInfo, file_reviews |-> file_reviews,
                     summary |-> summary]

C6_OneBadFileNeverBlocks ==
    (pc = "failed" /\ failedAt \in {"analyze_diff", "prepare_comments"}) =>
        FileNames(AnalyzeCalls) = FileNames(SelectSeq(pr_files, Reviewable))

\* C7: an answer that is not JSON makes analyze_diff return
\* {issues: [], summary: "Error: Failed to parse model response"}; that value is the
\* file's FileReview and the loop goes on to the next file.
C7_UnparseableAnswerDegrades ==
    \A i \in 1..Len(AnalyzeCalls) :
        AnalyzeCalls[i].answer = "text" =>
            /\ i <= Len(file_reviews)
            /\ file_reviews[i] =
                   [filename |-> AnalyzeCalls[i].filename,
                    review |-> [t |-> "dict", issues |-> <<>>,
                                summary |-> "Error: Failed to parse model response"]]
            /\ Running \/ failedAt \notin {"analyze_diff", "prepare_comments"}
                       \/ i < Len(AnalyzeCalls)
            /\ Running =>
                   Len(SelectSeq(SubSeq(pr_files, 1, idx), Reviewable)) >= i

C7_Witness ==
    /\ pc = "done"
    /\ Len(AnalyzeCalls) = 2
    /\ AnalyzeCalls[1].answer = "text"
    /\ AnalyzeCalls[2].answer = "json"
    /\ Len(file_reviews) = 2
    /\ file_reviews[1].review.summary = "Error: Failed to parse model response"

\* the first number of a line reference, when it has one
FirstLineNumber(line) ==
    IF line.kind = "int" THEN [ok |-> TRUE, val |-> line.n]
    ELSE IntOfStr(Split(line.s, "-")[1])

\* C8 (fails): the position of the CommentRequest of an issue with a line value is
\* map_line_to_position(file patch, first line number, new file) whenever the
\* mapper finds a position.
C8_PositionIsMappedPosition ==
    (post_comments /\ Running) =>
        LET issues == IssuesWithLine(file_reviews)
        IN  \A i \in 1..Len(review_comments) :
                i <= Len(issues) =>
                    LET n == FirstLineNumber(issues[i].issue.line)
                        mapped == map_line_to_position(FileNamed(issues[i].filename).patch,
                                                       n.val, TRUE)
                    IN  (n.ok /\ mapped # NotFound) => review_comments[i].position = mapped

\* C9: with post_comments, the comment requests are one per issue with a line
\* value, over all file reviews, none for an issue without one, in the order of
\* the files and of each file's issues, each with the path of its file.
C9_OneCommentPerIssueWithLine ==
    (post_comments /\ Running) =>
        LET issues == IssuesWithLine(file_reviews)
        IN  /\ Len(review_comments) = Len(issues)
            /\ \A i \in 1..Len(review_comments) :
                   /\ review_comments[i].path = issues[i].filename
                   /\ review_comments[i].body[4] = issues[i].issue.description

C9_Witness ==
    /\ pc = "done"
    /\ post_comments
    /\ Len(file_reviews) = 2
    /\ Len(review_comments) >= 3
    /\ review_comments[1].path # review_comments[Len(review_comments)].path
    /\ \E i \in 1..2 : \E j \in 1..Len(file_reviews[i].review.issues) :
           ~HasLineValue(file_reviews[i].review.issues[j])

\* C10 (as amended): map_line_to_position on the patch
\* "@@ -1,3 +1,4 @@\n line1\n+line2\n line3\n line4" with the new file as target
\* and line_number 2 returns position 3: the header is position 1, " line1"
\* position 2 and "+line2", new-file line 2, position 3.
C10_ExamplePositionIsThree ==
    (dpc = "mapped" /\ dPatch = PatchExample /\ dLine = 2 /\ dIsNew) => dPosition = 3

C10_Witness ==
    dpc = "mapped" /\ dPatch = PatchExample /\ dLine = 2 /\ dIsNew /\ dPosition = 3

\* C10 as stated: the same call returns position 2.
C10_ExamplePositionIsTwo ==
    (dpc = "mapped" /\ dPatch = PatchExample /\ dLine = 2 /\ dIsNew) => dPosition = 2

-----------------------------------------------------------------------------
(* C11..C20 *)

\* the new-file line numbers a hunk carries: one per line that is not a deletion,
\* counted from new_start
NewFileLines(hunk) ==
    LET kept == SelectSeq(hunk.lines, LAMBDA l : ~StartsWith(l, <<"-">>))
    IN  {hunk.new_start + k - 1 : k \in 1..Len(kept)}

\* C11: map_line_to_position is monotonic: with the new file as target, for line
\* numbers n1 < n2 that are both new-file lines of one hunk of the patch, both are
\* found and position(n1) < position(n2).  n2 is the line of the call, n1 ranges
\* over the smaller lines of the same hunk.
C11_MonotonicWithinHunk ==
    (dpc = "mapped" /\ dIsNew) =>
        \A h \in 1..Len(dHunks) : \A n1 \in 0..MaxLine :
            (n1 < dLine /\ n1 \in NewFileLines(dHunks[h]) /\ dLine \in NewFileLines(dHunks[h])) =>
                /\ dPosition # NotFound
                /\ map_line_to_position(dPatch, n1, TRUE) # NotFound
                /\ map_line_to_position(dPatch, n1, TRUE) < dPosition

\* the second hunk of a two-hunk patch: lines 4 and 6, two positions apart
C11_Witness ==
    /\ dpc = "mapped" /\ dIsNew /\ dPatch = PatchTwoHunks /\ dLine = 6
    /\ Len(dHunks) = 2
    /\ {4, 6} \subseteq NewFileLines(dHunks[2])
    /\ map_line_to_position(dPatch, 4, TRUE) = 6
    /\ dPosition = 8

\* the new-file range a hunk header announces
HeaderRange(hunk) == hunk.new_start .. (hunk.new_start + hunk.new_count - 1)

\* C12 (fails on a patch with a "\ No newline at end of file" marker): with the new
\* file as target, map_line_to_position returns "not found" for every line number
\* outside new_start .. new_start + new_count - 1 of every hunk header.
C12_NotFoundOutsideHeaderRanges ==
    (dpc = "mapped" /\ dIsNew /\ \A h \in 1..Len(dHunks) : dLine \notin HeaderRange(dHunks[h])) =>
        dPosition = NotFound

\* the lines of a patch
PatchLines(patch) == IF patch = PyNone THEN <<>> ELSE Split(patch, "\n")

\* the lines of a patch that match the header pattern, in order
HeaderLines(patch) == SelectSeq(PatchLines(patch), LAMBDA l : HunkHeaderMatch(l).matched)

\* a well-formed patch: every line that begins with "@@" is a full header
WellFormed(patch) ==
    \A i \in 1..Len(PatchLines(patch)) :
        StartsWith(PatchLines(patch)[i], <<"@", "@">>) =>
            HunkHeaderMatch(PatchLines(patch)[i]).matched

\* C13: for a well-formed patch parse_patch returns one hunk per line matching the
\* header pattern, in order of appearance, each with the four integers of its
\* header; an empty or absent patch gives the empty sequence.
C13_OneHunkPerHeader ==
    dpc \in {"parsed", "mapped"} =>
        /\ dPatch \in {PyNone, <<>>} => dHunks = <<>>
        /\ WellFormed(dPatch) =>
              /\ Len(dHunks) = Len(HeaderLines(dPatch))
              /\ \A h \in 1..Len(dHunks) :
                     /\ dHunks[h].header = HeaderLines(dPatch)[h]
                     /\ <<dHunks[h].old_start, dHunks[h].old_count,
                          dHunks[h].new_start, dHunks[h].new_count>>
                        = [g \in 1..4 |->
                              IntOfStr(HunkHeaderMatch(HeaderLines(dPatch)[h]).groups[g]).val]

\* two headers, the second "@@ -4,2 +4,3 @@ def f():", give two hunks in that order
C13_Witness ==
    /\ dpc = "parsed" /\ dPatch = PatchTwoHunks
    /\ Len(dHunks) = 2
    /\ dHunks[1].new_start = 1
    /\ <<dHunks[2].old_start, dHunks[2].old_count, dHunks[2].new_start, dHunks[2].new_count>>
       = <<4, 2, 4, 3>>

RECURSIVE Concat(_)
\* the sequences of a sequence, one after the other
Concat(seqs) == IF seqs = <<>> THEN <<>> ELSE Head(seqs) \o Concat(Tail(seqs))

\* the index of the first line that matches the header pattern (0 if none)
FirstHeader(lines) ==
    IF \E i \in 1..Len(lines) : HunkHeaderMatch(lines[i]).matched
    THEN CHOOSE i \in 1..Len(lines) :
             /\ HunkHeaderMatch(lines[i]).matched
             /\ \A j \in 1..(i - 1) : ~HunkHeaderMatch(lines[j]).matched
    ELSE 0

\* the lines after the first recognized header, those that begin with "@@" left out
BodyLines(patch) ==
    IF FirstHeader(PatchLines(patch)) = 0 THEN <<>>
    ELSE SelectSeq(SubSeq(PatchLines(patch), FirstHeader(PatchLines(patch)) + 1,
                          Len(PatchLines(patch))),
                   LAMBDA l : ~StartsWith(l, <<"@", "@">>))

\* C14 (fails on a patch with a one-number header between two hunks): the lines of
\* the hunks parse_patch returns, concatenated in hunk order, are the lines of the
\* patch that follow the first recognized header, header lines left out, each once
\* and in the original order; and no hunk line is a header line.
C14_HunkLinesRoundTrip ==
    dpc \in {"parsed", "mapped"} =>
        /\ Concat([h \in 1..Len(dHunks) |-> dHunks[h].lines]) = BodyLines(dPatch)
        /\ \A h \in 1..Len(dHunks) : \A i \in 1..Len(dHunks[h].lines) :
               ~StartsWith(dHunks[h].lines[i], <<"@", "@">>)

\* the round trip on well-formed patches
RoundTripWhenWellFormed == WellFormed(dPatch) => C14_HunkLinesRoundTrip

\* C18 (fails on a signature with a second "sha256=" in it, and on one with a
\* character outside ASCII): verify_signature returns true exactly when the
\* signature is "sha256=" followed by the hex HMAC-SHA256 of the payload under the
\* secret, and false for every other signature, absent ones included.
C18_TrueExactlyForCorrectHeader ==
    spc = "returned" =>
        sResult = IF sSignature = Sha256Prefix \o HexDigest(sSecret, sPayload)
                  THEN "True" ELSE "False"

\* what does hold: the correct header verifies, and an absent signature, one
\* without the prefix and every ASCII one-character mutation of the correct header
\* do not
SignatureExamples ==
    spc = "returned" =>
        /\ sSignature = SignatureHeader(sSecret, sPayload) => sResult = "True"
        /\ (sSignature \in {PyNone, <<>>} \/ ~StartsWith(sSignature, Sha256Prefix)) =>
               sResult = "False"
        /\ (/\ sSignature \in Mutations(SignatureHeader(sSecret, sPayload))
            /\ \A i \in 1..Len(sSignature) : sSignature[i] # NonAscii) =>
               sResult = "False"

\* the shared secret is configured and the request's signature verifies under it
SecretConfigured == hSecret.given /\ hSecret.val # ""
SignatureVerifies ==
    /\ SecretConfigured
    /\ verify_signature(hRequest.payload, hRequest.signature, hSecret.val) = "True"

\* obj is an object with a value under key (null, "", 0 and {} are no value)
HasValue(obj, key) ==
    /\ obj.k = "dict"
    /\ key \in DOMAIN obj.d
    /\ obj.d[key] \notin {JNull, JString(""), JNumber(0), JObject(<<>>), JArray}

\* the body is JSON with repository full name, PR number and action
RequiredFieldsPresent(payload) ==
    /\ JsonLoads(payload).ok
    /\ HasValue(JsonLoads(payload).value, "repository")
    /\ HasValue(JsonLoads(payload).value.d.repository, "full_name")
    /\ HasValue(JsonLoads(payload).value, "pull_request")
    /\ HasValue(JsonLoads(payload).value.d.pull_request, "number")
    /\ HasValue(JsonLoads(payload).value, "action")

\* the request has been handled
Responded == hpc \in {"responded", "reviewing", "finished"}

\* C15: the handler adds exactly one task when the secret is configured, the
\* signature verifies, the event type is pull_request and the body is JSON with
\* repository full name, PR number and action, and then answers 200 with
\* {message: "Processing PR #123 in owner/repo", status: "accepted"}; for every
\* other request (ping, another event type, a 401, 400 or 500) it adds no task.
C15_TaskScheduledOnceWhenAccepted ==
    Responded =>
        IF /\ SignatureVerifies
           /\ hRequest.event = Header("pull_request")
           /\ RequiredFieldsPresent(hRequest.payload)
        THEN /\ Len(hTasks) = 1
             /\ hTasks[1].repo_name = JString("owner/repo")
             /\ hTasks[1].pr_number = JNumber(123)
             /\ hResponse = [status |-> 200,
                             body |-> [message |-> "Processing PR #123 in owner/repo",
                                       status |-> "accepted"]]
        ELSE hTasks = <<>>

C15_Witness ==
    /\ hpc = "responded"
    /\ hRequest.event = Header("pull_request")
    /\ hRequest.payload = PayloadOpened
    /\ Len(hTasks) = 1
    /\ hTasks[1].action = JString("opened")
    /\ hResponse.status = 200
    /\ hResponse.body.message = "Processing PR #123 in owner/repo"

\* the request is a pull_request event whose body carries one of these actions
HasActionIn(actions) ==
    /\ hRequest.event = Header("pull_request")
    /\ JsonLoads(hRequest.payload).ok
    /\ HasValue(JsonLoads(hRequest.payload).value, "action")
    /\ JsonLoads(hRequest.payload).value.d.action \in {JString(a) : a \in actions}

\* C16: on the webhook path review_pr is invoked only for a pull_request event
\* whose action is opened, synchronize or reopened.  For every other action and
\* every other event type the reviewer is never constructed or invoked and no
\* hosting-API read, model call or publish call is made, while the event itself
\* is acknowledged with a 200 when it passes the handler's checks.
C16_OnlyThreeActionsTriggerReview ==
    /\ pc # "idle" =>
           /\ HasActionIn({"opened", "synchronize", "reopened"})
           /\ hpc \in {"reviewing", "finished"}
    /\ ~HasActionIn({"opened", "synchronize", "reopened"}) =>
           /\ pc = "idle"
           /\ apiReads = <<>> /\ modelCalls = <<>> /\ publishCalls = <<>>
           /\ (/\ Responded
               /\ SignatureVerifies
               /\ hRequest.event \notin {NoHeader, Header("")}
               /\ JsonLoads(hRequest.payload).ok
               /\ hRequest.event = Header("pull_request") =>
                      RequiredFieldsPresent(hRequest.payload)) =>
                  hResponse.status = 200

\* a closed pull request: accepted, its task run to the end, nothing reviewed
C16_Witness ==
    /\ hpc = "finished"
    /\ hRequest.event = Header("pull_request")
    /\ hRequest.payload = PayloadClosed
    /\ hResponse.status = 200
    /\ Len(hTasks) = 1
    /\ hLog = <<"Processing PR", "Ignoring PR action: closed">>
    /\ pc = "idle"
    /\ apiReads = <<>>

\* C17 (fails on a pull_request event whose body is JSON but not an object with
\* object-valued repository and pull_request, and on a signature with a character
\* outside ASCII): the first failing check decides the response: 500 when the
\* secret is not configured; else 401 when the signature is absent or does not
\* verify; else 400 when the event type is missing; else 400 when a pull_request
\* event lacks repository full name, PR number or action.
C17_RejectionOrder ==
    Responded =>
        IF ~SecretConfigured THEN hResponse.status = 500
        ELSE IF ~SignatureVerifies THEN hResponse.status = 401
        ELSE IF hRequest.event \in {NoHeader, Header("")} THEN hResponse.status = 400
        ELSE IF /\ hRequest.event = Header("pull_request")
                /\ ~RequiredFieldsPresent(hRequest.payload)
        THEN hResponse.status = 400
        ELSE TRUE

\* the order of the checks on requests whose signature is ASCII and whose body, if
\* JSON, is an object with object-valued repository and pull_request
RejectionOrderOnPlainRequests ==
    (/\ hRequest.signature = PyNone \/ \A i \in 1..Len(hRequest.signature) :
                                           hRequest.signature[i] # NonAscii
     /\ hRequest.payload \notin {PayloadArray, PayloadNullRepository}) =>
        C17_RejectionOrder

\* C19: the response to a pull_request event is sent before the review runs and
\* does not depend on it: the review run starts only after the response, and from
\* then on, whether the run is under way, has returned, has failed with any error
\* or never goes on, the response is the one the handler computed from the request;
\* a failure of the run shows in the log alone.
C19_ResponseIndependentOfReview ==
    /\ pc # "idle" => Responded
    /\ Responded =>
           hResponse = [status |-> github_webhook(hSecret, hRequest).status,
                        body |-> github_webhook(hSecret, hRequest).body]
    /\ (hpc = "finished" /\ pc = "failed") =>
           /\ hResponse.status = 200
           /\ hLog = <<"Processing PR", "Error reviewing PR: " \o failedAt>>

\* a review that failed in the model call after the 200 was sent
C19_Witness ==
    /\ hpc = "finished"
    /\ pc = "failed"
    /\ failedAt = "analyze_diff"
    /\ hRequest.payload = PayloadOpened
    /\ hResponse = [status |-> 200,
                    body |-> [message |-> "Processing PR #123 in owner/repo",
                              status |-> "accepted"]]
    /\ hLog = <<"Processing PR", "Error reviewing PR: analyze_diff">>

\* the text after the last "." of a name ("" when it has none)
AfterLastDot(name) ==
    IF ~Contains(name, ".") THEN <<>>
    ELSE SubSeq(name, 1 + CHOOSE i \in 1..Len(name) :
                            name[i] = "." /\ \A j \in (i + 1)..Len(name) : name[j] # ".",
                Len(name))

\* C20: get_file_extension returns the lower-cased text after the last "." of the
\* filename, or "" when it has no "."; is_binary_file is true exactly when that
\* extension is in the binary-extension list, whatever the case of the letters:
\* "photo.PNG" is binary, "readme" is not, and the extension of "archive.tar.gz"
\* is "gz".
C20_ExtensionAndBinary ==
    dpc \in {"extension", "binary"} =>
        /\ dExtension = Lower(AfterLastDot(dFilename))
        /\ \A i \in 1..Len(dExtension) : \A k \in 1..26 : dExtension[i] # UpperCase[k]
        /\ dpc = "binary" => (dBinary <=> dExtension \in binary_extensions)
        /\ (dpc = "binary" /\ dFilename = <<"p", "h", "o", "t", "o", ".", "P", "N", "G">>) =>
               dBinary
        /\ (dpc = "binary" /\ dFilename = <<"r", "e", "a", "d", "m", "e">>) => ~dBinary
        /\ dFilename = <<"a", "r", "c", "h", "i", "v", "e", ".", "t", "a", "r", ".", "g", "z">> =>
               dExtension = <<"g", "z">>

C20_Witness ==
    /\ dpc = "binary"
    /\ dFilename = <<"p", "h", "o", "t", "o", ".", "P", "N", "G">>
    /\ dExtension = <<"p", "n", "g">>
    /\ dBinary

-----------------------------------------------------------------------------
(* C21..C30 *)

\* C21 (fails: review_pr never consults is_binary_file): a changed file whose name
\* is_binary_file classifies as binary is skipped by review_pr even when it carries
\* patch text: no analyze_diff call is made and no FileReview recorded for it.
C21_BinaryFilesAreSkipped ==
    /\ \A i \in 1..Len(modelCalls) :
           modelCalls[i].op = "analyze_diff" => ~is_binary_file(modelCalls[i].filename)
    /\ \A i \in 1..Len(file_reviews) : ~is_binary_file(file_reviews[i].filename)

RECURSIVE AloneReviews(_, _)
\* the file_reviews a run builds from the answers its own analyze_diff calls got
AloneReviews(calls, i) ==
    IF i > Len(calls) THEN <<>>
    ELSE IF calls[i].op = "analyze_diff" /\ calls[i].answer # "exception"
    THEN <<[filename |-> calls[i].filename, review |-> calls[i].returned]>>
         \o AloneReviews(calls, i + 1)
    ELSE AloneReviews(calls, i + 1)

RECURSIVE AloneComments(_, _)
\* the review_comments a posting run builds from the same answers
AloneComments(calls, i) ==
    IF i > Len(calls) THEN <<>>
    ELSE IF calls[i].op = "analyze_diff" /\ calls[i].answer # "exception"
    THEN PrepareComments([filename |-> calls[i].filename, patch |-> calls[i].diff],
                         calls[i].returned, TRUE).comments
         \o AloneComments(calls, i + 1)
    ELSE AloneComments(calls, i + 1)

\* what summarize_review answered the run
SummaryAnswer(calls) == calls[Len(calls)].answer

\* the run's result and publish calls are those of a run alone that is given the
\* same pull request and the same answers
AsWhenAlone(frame) ==
    /\ frame.pc = "done" =>
           frame.result = ReviewResult(AloneReviews(frame.modelCalls, 1),
                                       SummaryAnswer(frame.modelCalls))
    /\ frame.publishCalls # <<>> =>
           /\ frame.post_comments
           /\ frame.publishCalls =
                  <<PublishCall(AloneComments(frame.modelCalls, 1),
                                SummaryAnswer(frame.modelCalls))>>
    /\ frame.pc = "done" /\ frame.post_comments => frame.publishCalls # <<>>

\* C22: two review runs that interleave at their awaits do not interfere: the
\* ReviewResult and the publish calls of each are those of the run alone
C22_ConcurrentRunsDoNotInterfere ==
    /\ AsWhenAlone(CurrentFrame)
    /\ suspended # NoFrame => AsWhenAlone(suspended)

\* both runs returned after a switch that found each between two model calls, and
\* one of them published
C22_Witness ==
    /\ overlapped
    /\ pc = "done"
    /\ suspended # NoFrame
    /\ suspended.pc = "done"
    /\ Len(result.file_reviews) = 2
    /\ Len(suspended.result.file_reviews) = 2
    /\ publishCalls # <<>>
    /\ suspended.publishCalls = <<>>

\* a line of the patch that parse_patch may put in a hunk, and one that is present
\* in the target file
IsHunkLine(line) == ~StartsWith(line, <<"@", "@">>)
InTarget(line, is_new_file) ==
    ~StartsWith(line, IF is_new_file THEN <<"-">> ELSE <<"+">>)

\* the index of the last recognized header before line k of the patch
HeaderBefore(lines, k) ==
    CHOOSE j \in 1..(k - 1) :
        /\ HunkHeaderMatch(lines[j]).matched
        /\ \A i \in (j + 1)..(k - 1) : ~HunkHeaderMatch(lines[i]).matched

\* the start line a recognized header announces for the target file
HeaderStart(header, is_new_file) ==
    IntOfStr(HunkHeaderMatch(header).groups[IF is_new_file THEN 3 ELSE 1]).val

\* the target-file line number of line k: the start of its hunk's header plus the
\* lines of the target file between that header and line k
TargetLineNumber(lines, k, is_new_file) ==
    HeaderStart(lines[HeaderBefore(lines, k)], is_new_file)
    + Cardinality({i \in (HeaderBefore(lines, k) + 1)..(k - 1) :
                       IsHunkLine(lines[i]) /\ InTarget(lines[i], is_new_file)})

\* the lines of the patch whose target-file line number is line_number
MatchingLines(lines, line_number, is_new_file) ==
    {k \in 1..Len(lines) :
        /\ FirstHeader(lines) # 0
        /\ k > FirstHeader(lines)
        /\ IsHunkLine(lines[k])
        /\ InTarget(lines[k], is_new_file)
        /\ TargetLineNumber(lines, k, is_new_file) = line_number}

\* the diff lines up to and including line k: the recognized headers and the hunk
\* lines that follow the first of them
DiffLinesUpTo(lines, k) ==
    Cardinality({i \in 1..k :
                    \/ HunkHeaderMatch(lines[i]).matched
                    \/ i > FirstHeader(lines) /\ IsHunkLine(lines[i])})

\* the position of the first matching line of the patch, if there is one
FirstMatchPosition(patch, line_number, is_new_file) ==
    IF MatchingLines(PatchLines(patch), line_number, is_new_file) = {} THEN NotFound
    ELSE DiffLinesUpTo(PatchLines(patch),
             CHOOSE k \in MatchingLines(PatchLines(patch), line_number, is_new_file) :
                 \A m \in MatchingLines(PatchLines(patch), line_number, is_new_file) :
                     k <= m)

\* C23 (fails on a patch with a one-number header after a hunk): map_line_to_position
\* returns, for the first line in hunk and line order whose target-file line number
\* is line_number, the count of the diff lines up to and including it, one per hunk
\* header met and one per hunk line scanned; a later matching line is never returned.
C23_PositionCountsDiffLines ==
    dpc = "mapped" => dPosition = FirstMatchPosition(dPatch, dLine, dIsNew)

\* the same on well-formed patches
PositionCountsWhenWellFormed == WellFormed(dPatch) => C23_PositionCountsDiffLines

\* a deletion (an addition, for the old file) that is not of the --- (+++) form is
\* the only line absent from the target
InTargetExceptMarkers(line, is_new_file) ==
    \/ InTarget(line, is_new_file)
    \/ StartsWith(line, IF is_new_file THEN <<"-", "-", "-">> ELSE <<"+", "+", "+">>)

RECURSIVE ScannedLines(_, _)
\* the diff lines in the order map_line_to_position scans them: for each hunk its
\* header (i = 0), then its lines
ScannedLines(hunks, h) ==
    IF h > Len(hunks) THEN <<>>
    ELSE <<[h |-> h, i |-> 0]>> \o [i \in 1..Len(hunks[h].lines) |-> [h |-> h, i |-> i]]
         \o ScannedLines(hunks, h + 1)

\* current_line at line i of a hunk when the lines for which InT holds, and no
\* others, advance it by one
CurrentLineAt(InT(_, _), hunk, i, is_new_file) ==
    (IF is_new_file THEN hunk.new_start ELSE hunk.old_start)
    + Cardinality({j \in 1..(i - 1) : InT(hunk.lines[j], is_new_file)})

\* the scanned line at position p is one for which InT holds and whose current_line
\* is line_number
Matches(InT(_, _), hunks, p, line_number, is_new_file) ==
    /\ ScannedLines(hunks, 1)[p].i > 0
    /\ InT(hunks[ScannedLines(hunks, 1)[p].h].lines[ScannedLines(hunks, 1)[p].i],
           is_new_file)
    /\ CurrentLineAt(InT, hunks[ScannedLines(hunks, 1)[p].h],
                     ScannedLines(hunks, 1)[p].i, is_new_file) = line_number

\* the result is the position of the first scanned line that matches when exactly
\* the lines for which InT holds are compared and advance current_line
ScanCompares(InT(_, _), hunks, position, line_number, is_new_file) ==
    IF position = NotFound
    THEN \A p \in 1..Len(ScannedLines(hunks, 1)) :
             ~Matches(InT, hunks, p, line_number, is_new_file)
    ELSE /\ position \in 1..Len(ScannedLines(hunks, 1))
         /\ Matches(InT, hunks, position, line_number, is_new_file)
         /\ \A p \in 1..(position - 1) : ~Matches(InT, hunks, p, line_number, is_new_file)

\* C24 as stated (fails on a hunk with a removed line "-- x"): with the new file
\* as target a line with the - prefix that is not of the --- form is never the
\* match and does not advance current_line, and every other hunk line, one of the
\* --- form included, is compared and advances current_line by one if it does not
\* match; with the old file as target the same with + and +++.
C24_MarkerLinesCompared ==
    dpc = "mapped" => ScanCompares(InTargetExceptMarkers, dHunks, dPosition, dLine, dIsNew)

\* C24: with the new file as target every line with the - prefix, one of the ---
\* form included, is never the match and does not advance current_line, and every
\* other hunk line is compared and advances current_line by one if it does not
\* match; with the old file as target the same with +.
C24_PrefixedLinesSkipped ==
    dpc = "mapped" => ScanCompares(InTarget, dHunks, dPosition, dLine, dIsNew)

\* new-file line 2 of a hunk " a", "--- x", "+++ y", " b" is "+++ y" at position 4:
\* "--- x" was neither compared nor counted
C24_Witness ==
    /\ dpc = "mapped" /\ dIsNew /\ dPatch = PatchMarkerLines /\ dLine = 2
    /\ dPosition = 4
    /\ dHunks[1].lines[2] = <<"-", "-", "-", " ", "x">>

\* the patch without its lines that begin with "@@" and do not match the pattern
WithoutMalformedHeaders(patch) ==
    Join(SelectSeq(PatchLines(patch),
                   LAMBDA l : ~StartsWith(l, <<"@", "@">>) \/ HunkHeaderMatch(l).matched))

\* C25 (fails on a patch with a one-number header after a hunk): a line that
\* begins with "@@" and does not match the header pattern is skipped: parse_patch
\* returns the hunks it returns for the patch without that line, one hunk for each
\* recognized header.
C25_MalformedHeaderSkipped ==
    (dpc \in {"parsed", "mapped"} /\ dPatch # PyNone) =>
        /\ dHunks = parse_patch(WithoutMalformedHeaders(dPatch))
        /\ Len(dHunks) = Len(HeaderLines(dPatch))

SummarizeCalls == SelectSeq(modelCalls, LAMBDA c : c.op = "summarize_review")
RetrievalDone ==
    apiReads = <<[op |-> "get_pull_request", outcome |-> "ok"],
                 [op |-> "get_pr_files", outcome |-> "ok"]>>

\* C26: the calls of a review run occur in a fixed order: the pull request and its
\* files are retrieved before any model call; the analyze_diff calls follow file
\* order; summarize_review is called once, after every analyze_diff call has
\* returned, with the complete ordered file_reviews, also when no file was eligible;
\* the publish call, if any, follows the return of summarize_review.  A run that an
\* exception ends has made a prefix of these calls.
C26_CallsInFixedOrder ==
    /\ modelCalls # <<>> => RetrievalDone
    /\ IsPrefix(FileNames(AnalyzeCalls), FileNames(SelectSeq(pr_files, Reviewable)))
    /\ Len(SummarizeCalls) <= 1
    /\ \A i \in 1..Len(modelCalls) :
           modelCalls[i].op = "summarize_review" =>
               /\ i = Len(modelCalls)
               /\ FileNames(AnalyzeCalls) = FileNames(SelectSeq(pr_files, Reviewable))
               /\ \A j \in 1..(i - 1) : modelCalls[j].answer # "exception"
               /\ modelCalls[i].file_reviews = AloneReviews(modelCalls, 1)
    /\ pc \in {"publish", "done"} =>
           Len(SummarizeCalls) = 1 /\ summary = SummarizeCalls[1].answer
    /\ Len(publishCalls) <= 1
    /\ publishCalls # <<>> =>
           /\ Len(SummarizeCalls) = 1
           /\ SummarizeCalls[1].answer # "exception"
           /\ publishCalls[1] = PublishCall(review_comments, SummarizeCalls[1].answer)

\* a posting run that returned: two analyze_diff calls in file order around a
\* skipped file, then the summary of both reviews, then the publish call
C26_Witness ==
    /\ pc = "done"
    /\ Len(pr_files) = 3
    /\ ~Reviewable(pr_files[2])
    /\ Len(modelCalls) = 3
    /\ FileNames(AnalyzeCalls) = <<pr_files[1].filename, pr_files[3].filename>>
    /\ Len(modelCalls[3].file_reviews) = 2
    /\ Len(publishCalls) = 1

\* a run with no eligible file still asks for the summary, of an empty list
SummaryOfNoReviews ==
    /\ pc = "done"
    /\ pr_files # <<>>
    /\ modelCalls = <<[op |-> "summarize_review", file_reviews |-> <<>>,
                       answer |-> "summary text"]>>

\* the lines of the patch as _get_position_from_line counts them, and those of
\* them that are additions
PatchLineCount(patch) == Len(Split(patch, "\n"))
AddedLineCount(patch) ==
    Len(SelectSeq(Split(patch, "\n"),
                  LAMBDA l : StartsWith(l, <<"+">>) /\ ~StartsWith(l, <<"+", "+", "+">>)))

\* a range reference "N-M", and the text of the number a reference begins with
IsRange(line_ref) == line_ref.kind = "str" /\ Contains(line_ref.s, "-")
NumberText(line_ref) ==
    IF IsRange(line_ref) THEN Split(line_ref.s, "-")[1] ELSE line_ref.s
IsNumberText(s) == s # <<>> /\ \A i \in 1..Len(s) : s[i] \in Digits

\* the reference is a number, the text of one, or a range that begins with one
Parseable(line_ref) ==
    \/ line_ref.kind = "int"
    \/ line_ref.kind = "str" /\ IsNumberText(NumberText(line_ref))
NumberOf(line_ref) ==
    IF line_ref.kind = "int" THEN line_ref.n ELSE DecimalValue(NumberText(line_ref))

\* C27 (fails on a line that json.loads made infinite): _get_position_from_line
\* never fails; a range "N-M" gives the position of the number N; a reference that
\* is no number gives position 1; a number that cannot be located in the patch
\* gives the end of the patch, its number of lines.
C27_PositionFallbackNeverFails ==
    dpc = "positioned" =>
        /\ dPosition # OverflowError
        /\ (IsRange(dLineRef) /\ Parseable(dLineRef)) =>
               dPosition = _get_position_from_line(dPatch, IntLine(NumberOf(dLineRef)))
        /\ (dLineRef.kind \in {"str", "null"} /\ ~Parseable(dLineRef)) => dPosition = 1
        /\ (Parseable(dLineRef) /\ NumberOf(dLineRef) > AddedLineCount(dPatch)) =>
               dPosition = PatchLineCount(dPatch)

\* the same for the references that are not an infinite float
PositionFallbackOnFiniteReferences == dLineRef # InfLine => C27_PositionFallbackNeverFails

\* C28: without post_comments review_pr makes no write to the hosting API, neither
\* add_pr_comment nor add_pr_review, and builds no comment request, whatever issues
\* the model returns; the hosting API is only read.
C28_NoWriteWithoutPostComments ==
    ~post_comments =>
        /\ publishCalls = <<>>
        /\ publishReturn = NoReturn
        /\ review_comments = <<>>
        /\ pc # "publish"
        /\ \A i \in 1..Len(apiReads) :
               apiReads[i].op \in {"get_pull_request", "get_pr_files"}

\* a run without post_comments returned reviews whose issues carry lines, and
\* nothing was built or published
C28_Witness ==
    /\ ~post_comments
    /\ pc = "done"
    /\ Len(IssuesWithLine(file_reviews)) >= 2
    /\ result.file_reviews = file_reviews
    /\ review_comments = <<>>
    /\ publishCalls = <<>>

\* pull_request events that differ in their action alone
ActionPayloads == {PayloadOpened, PayloadSynchronize, PayloadReopened, PayloadClosed}

\* the request as its sender would have sent it with another body
SameRequestWith(payload) ==
    [signature |-> SignatureHeader(hSecret.val, payload), event |-> hRequest.event,
     payload |-> payload]

\* C29: for a pull_request event that passes the handler's checks, the response
\* and the scheduling do not depend on the action: the handler answers 'accepted'
\* and adds one task, and so it does for the event that differs in its action
\* alone; the action is tested in the background task only.
C29_ResponseIndependentOfAction ==
    (/\ Responded
     /\ SignatureVerifies
     /\ hRequest.event = Header("pull_request")
     /\ hRequest.payload \in ActionPayloads) =>
        /\ hResponse.status = 200
        /\ hResponse.body.status = "accepted"
        /\ Len(hTasks) = 1
        /\ \A other \in ActionPayloads :
               /\ github_webhook(hSecret, SameRequestWith(other)).status = hResponse.status
               /\ github_webhook(hSecret, SameRequestWith(other)).body = hResponse.body
               /\ Len(github_webhook(hSecret, SameRequestWith(other)).tasks) = 1
               /\ github_webhook(hSecret, SameRequestWith(other)).tasks[1].repo_name
                  = hTasks[1].repo_name
               /\ github_webhook(hSecret, SameRequestWith(other)).tasks[1].pr_number
                  = hTasks[1].pr_number
               /\ github_webhook(hSecret, SameRequestWith(other)).tasks[1].action
                  = JsonLoads(other).value.d.action

\* a synchronize event and a closed one are answered alike, each with its task;
\* the closed one's task then ends at the test of the action
C29_Witness ==
    /\ hpc = "finished"
    /\ hRequest.event = Header("pull_request")
    /\ hRequest.payload = PayloadClosed
    /\ hResponse.body.status = "accepted"
    /\ hTasks[1].action = JString("closed")
    /\ pc = "idle"
    /\ github_webhook(hSecret, SameRequestWith(PayloadSynchronize)).body = hResponse.body
    /\ github_webhook(hSecret, SameRequestWith(PayloadSynchronize)).tasks[1].action
       = JString("synchronize")

\* C30 (fails on a line that json.loads made infinite): for every non-empty patch
\* and every line reference _get_position_from_line returns an integer from 1 to
\* the number of lines of the patch, and it is monotone in the line number: for
\* parseable references n1 <= n2 on the same patch, position(n1) <= position(n2).
\* n2 is the reference of the call, n1 ranges over the smaller numbers.
C30_PositionWithinPatchAndMonotone ==
    (dpc = "positioned" /\ dPatch # <<>>) =>
        /\ dPosition \in 1..PatchLineCount(dPatch)
        /\ Parseable(dLineRef) =>
               \A n1 \in 0..NumberOf(dLineRef) :
                   _get_position_from_line(dPatch, IntLine(n1)) <= dPosition

\* the same for the references that are not an infinite float
PositionWithinPatchOnFiniteReferences ==
    dLineRef # InfLine => C30_PositionWithinPatchAndMonotone

====
